---- MODULE Spec2Model ----
(***************************************************************************)
(* The posting-journal edit endpoint (PUT /journal/:record_uuid) of the    *)
(* finance/journal controller: editTransaction, lookupTransaction,         *)
(* transformColumns and getTransactionDate, together with the store they   *)
(* act on (posting_journal, general_ledger, transaction_history).          *)
(* With it, getOpeningBalanceForDate of accounts/extra.js over             *)
(* period_total and general_ledger (SpecBalance).                          *)
(* Two edit requests in flight (SpecPair), posting during an edit          *)
(* (SpecPost), reverse of the same controller (SpecReverse) and the        *)
(* permission tree of userPermission.modal.js (SpecTree).                  *)
(*                                                                         *)
(* A row is a function from column names to values; a column the client    *)
(* did not send is absent from the row's domain.  Dates are day numbers,   *)
(* amounts are naturals, identifiers are strings.                          *)
(***************************************************************************)
EXTENDS Integers, Sequences, FiniteSets, TLC

(***************************************************************************)
(* Bounds of the model.                                                    *)
(***************************************************************************)
MaxEdits == 3       \* requests handled one after the other (SpecSeq)
MaxAdded == 2       \* rows in body.added
MaxRemoved == 3     \* rows in body.removed
MaxDate == 9        \* the dates an opening balance is asked for: 1..MaxDate
MaxReverse == 3     \* reverse requests in flight (SpecReverse)

(***************************************************************************)
(* JavaScript values.                                                      *)
(***************************************************************************)
NULL == 0 - 1       \* SQL NULL / JS null in a numeric column

StringColumns ==
  {"uuid", "record_uuid", "hrEntity", "hrReference", "entity_uuid", "reference_uuid"}

Has(row, k) == k \in DOMAIN row

\* JavaScript truthiness of row[k]: undefined, null, 0 and "" are falsy
Truthy(row, k) ==
  /\ Has(row, k)
  /\ IF k \in StringColumns THEN row[k] # "" ELSE row[k] \notin {0, NULL}

\* obj.k, where a missing property reads as undefined
Prop(obj, k, undefined) == IF k \in DOMAIN obj THEN obj[k] ELSE undefined

\* _.extend(row, {k : v}) and row.k = v
Extend(row, k, v) == [x \in DOMAIN row \cup {k} |-> IF x = k THEN v ELSE row[x]]

\* UPDATE ... SET ? : the columns of the patch overwrite those of the stored row
Merge(patch, old) ==
  [x \in DOMAIN old \cup DOMAIN patch |-> IF x \in DOMAIN patch THEN patch[x] ELSE old[x]]

Range(s) == {s[i] : i \in DOMAIN s}

(***************************************************************************)
(* Reference tables the edit only reads.                                   *)
(***************************************************************************)
\* account.number -> account.id
AccountTable == (1 :> 11) @@ (2 :> 12)

\* entity_map.text -> entity_map.uuid
EntityMap == ("E1" :> "e1")

\* document_map.text -> document_map.uuid
DocumentMap == ("D1" :> "d1")

\* project.id -> the enterprise joined to it (project 2 joins no enterprise)
EnterpriseOfProject == (1 :> [id |-> 1, currency_id |-> 1])

\* GetExchangeRate(enterprise, currency, date): day -> rate; no rate is known for day 5
RateOn == (1 :> 3) @@ (2 :> 3) @@ (3 :> 2) @@ (4 :> 3) @@ (6 :> 0)

\* period joined to fiscal_year: fiscal year 1 is locked, fiscal year 2 is open,
\* day 7 lies in no fiscal year
Calendar ==
  { [id |-> 101, fiscal_year_id |-> 1, start_date |-> 1, end_date |-> 2, locked |-> 1],
    [id |-> 201, fiscal_year_id |-> 2, start_date |-> 3, end_date |-> 3, locked |-> 0],
    [id |-> 202, fiscal_year_id |-> 2, start_date |-> 4, end_date |-> 6, locked |-> 0] }


\* FiscalService.lookupFiscalYearByDate(date): the periods whose range contains the date
LookupFiscalYearByDate(date) ==
  {p \in Calendar : p.start_date <= date /\ date <= p.end_date}

(***************************************************************************)
(* The store and the request in progress.                                  *)
(***************************************************************************)
VARIABLES
  journal,            \* posting_journal: uuid -> row
  ledger,             \* general_ledger: uuid -> row
  history,            \* transaction_history, in insertion order
  pc,                 \* position of the request in editTransaction's promise chain
  body,               \* the request as received: record_uuid, added, changed, removed, user
  rowsAdded,          \* req.body.added, mutated in place by transformColumns
  rowsChanged,        \* req.body.changed as a sequence of [uid, row] in key order
  queue,              \* the queries added to db.transaction()
  transactionToEdit,  \* _transactionToEdit
  transDate,          \* the date handed to lookupFiscalYearByDate
  fiscalYear,         \* _fiscalYear
  databaseRequests,   \* transformColumns' three parallel arrays
  databaseValues,
  assignments,
  pending,            \* indexes of the lookups not yet settled
  response,           \* what the caller received
  pre,                \* posting_journal when the request arrived
  preHistory,         \* transaction_history when the request arrived
  issued,             \* lookups issued by transformColumns for this request
  committed,          \* transaction.execute() of this request succeeded
  commits,            \* the edits that committed: [record_uuid, user_id], in order
  editsLeft,          \* requests still to arrive
  requests            \* the bodies that arrive: "any" or "plain"

\* getOpeningBalanceForDate: the table it reads besides general_ledger, and the call
\* in progress
VARIABLES
  periodTotal,            \* period_total: rows [account_id, period_id, debit, credit]
  call,                   \* the arguments: accountId, date, includeMaxDate
  step,                   \* position of the call in its promise chain
  fiscalYearId,           \* what getFiscalYearForDate resolved to
  previousPeriodClosing,  \* what getPeriodAccountBalanceUntilDate resolved to
  balance,                \* the three accumulators of getOpeningBalanceForDate
  credit,
  debit,
  periodId,               \* what getPeriodForDate resolved to
  runningPeriod,          \* what getComputedAccountBalanceUntilDate resolved to
  opening                 \* what the promise of getOpeningBalanceForDate settled with

balanceVars ==
  << periodTotal, call, step, fiscalYearId, previousPeriodClosing, balance, credit,
     debit, periodId, runningPeriod, opening >>

\* a second edit request in flight, the reversal requests and the permission tree
VARIABLES
  parked,                 \* the request-local state of the edit request that is not running
  voucher,                \* voucher: rows [uuid, type_id, reference_uuid]
  reversals,              \* the reverse requests: record, voucherUuid, position, response
  units,                  \* vm.units of the permission modal: id -> [parent, checked]
  super                   \* vm.super

sideVars == << parked, voucher, reversals, units, super >>

editVars ==
  << history, pc, body, rowsAdded, rowsChanged, queue,
     transactionToEdit, transDate, fiscalYear, databaseRequests, databaseValues,
     assignments, pending, response, pre, preHistory, issued, committed, commits,
     editsLeft, requests >>

vars == << journal, ledger, editVars, balanceVars, sideVars >>

(***************************************************************************)
(* find / naiveTransactionSearch / buildTransactionQuery with              *)
(* {record_uuid, includeNonPosted : true}.                                 *)
(***************************************************************************)
\* the inner joins of buildTransactionQuery: a row is selected only with its
\* project, period, account, user and currency
Joins(row) ==
  /\ Truthy(row, "project_id")
  /\ Has(row, "period_id") /\ row["period_id"] \in {p.id : p \in Calendar}
  /\ Has(row, "account_id") /\ row["account_id"] \in Range(AccountTable)
  /\ Truthy(row, "user_id")
  /\ Truthy(row, "currency_id")

\* the rows of one table selected by filters.equals('record_uuid'), each with the
\* literal `posted` column of the sub-query
buildTransactionQuery(table, postedFlag, recordUuid) ==
  { Extend(table[u], "posted", postedFlag) :
      u \in {v \in DOMAIN table :
               /\ Has(table[v], "record_uuid")
               /\ table[v]["record_uuid"] = recordUuid
               /\ Joins(table[v])} }

Find(jrn, ldg, recordUuid) ==
  buildTransactionQuery(ldg, 1, recordUuid) \cup buildTransactionQuery(jrn, 0, recordUuid)

\* the trans_date column of a stored row (NULL sorts last in a descending order)
DateOf(row) == IF Has(row, "trans_date") THEN row["trans_date"] ELSE NULL

\* (posted) UNION ALL (non posted) ORDER BY trans_date DESC: every order of the
\* selected rows that is descending in trans_date (rows of equal date in any order)
naiveTransactionSearch(jrn, ldg, recordUuid) ==
  LET S == Find(jrn, ldg, recordUuid)
      n == Cardinality(S)
  IN  { s \in [1..n -> S] :
          /\ \A i, j \in 1..n : i # j => s[i] # s[j]
          /\ \A i, j \in 1..n : i < j => DateOf(s[i]) >= DateOf(s[j]) }

(***************************************************************************)
(* getTransactionDate(changedRows, oldRows)                                *)
(***************************************************************************)
RECURSIVE LastDate(_, _)
\* rows.filter(row => row.trans_date).map(row => row.trans_date).pop(); 0 is undefined
LastDate(rows, i) ==
  IF i = 0 THEN 0
  ELSE IF Truthy(rows[i], "trans_date") THEN rows[i]["trans_date"]
  ELSE LastDate(rows, i - 1)

\* the changed rows placed before the old rows, so that an old row's date wins
getTransactionDateOldLast(changedRows, oldRows) ==
  LET changes == [i \in 1..Len(changedRows) |-> changedRows[i].row]
      rows == changes \o oldRows
  IN  LastDate(rows, Len(rows))

getTransactionDate(changedRows, oldRows) ==
  LET changes == [i \in 1..Len(changedRows) |-> changedRows[i].row]
      rows == oldRows \o changes
  IN  LastDate(rows, Len(rows))


(***************************************************************************)
(* transformColumns(rows, newRecord, transactionToEdit, setFiscalData)     *)
(***************************************************************************)
\* One scheduled lookup: the query, its values and the assignment closure, which
\* has captured the row (by its position in rows) and writes one column of it.
Lookup(request, values, row, column) ==
  [request |-> request, values |-> values, assign |-> [row |-> row, column |-> column]]

\* the date of an exchange-rate lookup:
\* new Date(row.trans_date ? row.trans_date : transactionDate)
RateDate(row, transactionDate) ==
  IF Truthy(row, "trans_date") THEN row["trans_date"] ELSE transactionDate

\* the lookups one row schedules, in the order of the pushes
RowLookups(row, idx, ctx) ==
  (IF Truthy(row, "account_number")
     THEN << Lookup("ACCOUNT_NUMBER_QUERY", << row["account_number"] >>, idx, "account_id") >>
     ELSE << >>)
  \o
  (IF Truthy(row, "hrEntity")
     THEN << Lookup("ENTITY_QUERY", << row["hrEntity"] >>, idx, "entity_uuid") >>
     ELSE << >>)
  \o
  (IF Truthy(row, "hrReference")
     THEN << Lookup("REFERENCE_QUERY", << row["hrReference"] >>, idx, "reference_uuid") >>
     ELSE << >>)
  \o
  (IF Truthy(row, "debit_equiv")
     THEN << Lookup("EXCHANGE_RATE_QUERY",
                    << row["debit_equiv"], ctx.currencyId, ctx.currencyId,
                       RateDate(row, ctx.transactionDate), ctx.projectId >>,
                    idx, "debit") >>
     ELSE << >>)
  \o
  (IF Truthy(row, "credit_equiv")
     THEN << Lookup("EXCHANGE_RATE_QUERY",
                    << row["credit_equiv"], ctx.currencyId, ctx.currencyId,
                       RateDate(row, ctx.transactionDate), ctx.projectId >>,
                    idx, "credit") >>
     ELSE << >>)

\* the columns the loop removes from the row
DroppedColumns(row) ==
  {k \in {"account_number", "account_name", "account_label", "hrEntity", "hrReference"} :
     Truthy(row, k)}

\* the row as the loop leaves it, before any lookup has settled
RowAfterLoop(row, setFiscalData) ==
  LET r == [x \in DOMAIN row \ DroppedColumns(row) |-> row[x]]
  IN  IF Truthy(row, "trans_date")
        THEN Extend(Extend(r, "fiscal_year_id", setFiscalData.fiscal_year_id),
                    "period_id", setFiscalData.id)
        ELSE r

RECURSIVE AllLookups(_, _, _)
AllLookups(rows, i, ctx) ==
  IF i > Len(rows) THEN << >>
  ELSE RowLookups(rows[i], i, ctx) \o AllLookups(rows, i + 1, ctx)

\* the shared properties read from transactionToEdit[0]
SharedProperties(toEdit) ==
  [ projectId       |-> toEdit[1]["project_id"],
    transactionDate |-> DateOf(toEdit[1]),
    currencyId      |-> toEdit[1]["currency_id"] ]

\* an account test that looks at the first row only
MissingAccountFirstRow(rows, newRecord) ==
  newRecord /\ Len(rows) > 0 /\ ~Truthy(rows[1], "account_number")

\* if (newRecord && !row.account_number), for some row of the loop
MissingAccount(rows, newRecord) ==
  newRecord /\ \E i \in 1..Len(rows) : ~Truthy(rows[i], "account_number")

\* the synchronous part of transformColumns: it throws for a new row without an
\* account number, else it leaves the rows and the three parallel arrays
transformColumns(rows, newRecord, toEdit, setFiscalData) ==
  LET ctx == SharedProperties(toEdit)
      lookups == AllLookups(rows, 1, ctx)
  IN  IF MissingAccount(rows, newRecord)
        THEN [ throws |-> TRUE ]
        ELSE [ throws           |-> FALSE,
               rows             |-> [i \in 1..Len(rows) |-> RowAfterLoop(rows[i], setFiscalData)],
               databaseRequests |-> [i \in 1..Len(lookups) |-> lookups[i].request],
               databaseValues   |-> [i \in 1..Len(lookups) |-> lookups[i].values],
               assignments      |-> [i \in 1..Len(lookups) |-> lookups[i].assign] ]

(***************************************************************************)
(* db.exec of the four lookup queries.                                     *)
(***************************************************************************)
\* ? * IF(enterprise.currency_id = ?, 1, GetExchangeRate(enterprise.id, ?, ?))
ExchangeAmount(enterprise, values) ==
  LET rate == IF enterprise.currency_id = values[2] THEN 1
              ELSE IF values[4] \in DOMAIN RateOn THEN RateOn[values[4]] ELSE NULL
  IN  IF rate = NULL THEN NULL ELSE values[1] * rate

DbExec(request, values) ==
  CASE request = "ACCOUNT_NUMBER_QUERY" ->
         IF values[1] \in DOMAIN AccountTable
           THEN << [id |-> AccountTable[values[1]]] >> ELSE << >>
    [] request = "ENTITY_QUERY" ->
         IF values[1] \in DOMAIN EntityMap
           THEN << [uuid |-> EntityMap[values[1]]] >> ELSE << >>
    [] request = "REFERENCE_QUERY" ->
         IF values[1] \in DOMAIN DocumentMap
           THEN << [uuid |-> DocumentMap[values[1]]] >> ELSE << >>
    [] request = "EXCHANGE_RATE_QUERY" ->
         IF values[5] \in DOMAIN EnterpriseOfProject
           THEN << [amount |-> ExchangeAmount(EnterpriseOfProject[values[5]], values)] >>
           ELSE << >>

\* !result.length
NoResult(result) == Len(result) = 0

\* an amount test that lets a NULL amount through
NoAmountZeroOnly(amount) == amount = 0

\* !amount
NoAmount(amount) == amount \in {0, NULL}

\* the account error thrown by every closure
BadRequestCodeAccountOnly(column) == "EDIT_INVALID_ACCOUNT"

\* the code of the BadRequest the closure of a column throws on an empty result
BadRequestCode(column) ==
  CASE column = "account_id"     -> "EDIT_INVALID_ACCOUNT"
    [] column = "entity_uuid"    -> "EDIT_INVALID_ENTITY"
    [] column = "reference_uuid" -> "EDIT_INVALID_REFERENCE"

\* the assignment closure applied to the result of its query: the error it throws,
\* or the rows with the captured row's column written
Assign(assign, result, rows) ==
  CASE assign.column = "account_id" ->
         IF NoResult(result) THEN [ error |-> BadRequestCode(assign.column) ]
         ELSE [ error |-> "", rows |-> [rows EXCEPT ![assign.row] = Extend(@, "account_id", Prop(result[1], "id", NULL))] ]
    [] assign.column = "entity_uuid" ->
         IF NoResult(result) THEN [ error |-> BadRequestCode(assign.column) ]
         ELSE [ error |-> "", rows |-> [rows EXCEPT ![assign.row] = Extend(@, "entity_uuid", Prop(result[1], "uuid", ""))] ]
    [] assign.column = "reference_uuid" ->
         IF NoResult(result) THEN [ error |-> BadRequestCode(assign.column) ]
         ELSE [ error |-> "", rows |-> [rows EXCEPT ![assign.row] = Extend(@, "reference_uuid", Prop(result[1], "uuid", ""))] ]
    [] assign.column \in {"debit", "credit"} ->
         \* const [{ amount }] = result throws a TypeError on an empty result
         IF Len(result) = 0 THEN [ error |-> "TypeError" ]
         ELSE IF NoAmount(Prop(result[1], "amount", NULL)) THEN [ error |-> "MISSING_EXCHANGE_RATE" ]
         ELSE [ error |-> "", rows |-> [rows EXCEPT ![assign.row] = Extend(@, assign.column, Prop(result[1], "amount", NULL))] ]

\* a pairing of results and assignments by order of arrival, not by index
AssignmentOfReversed(assigns, index) == assigns[(Len(assigns) + 1) - index]

\* promises = databaseRequests.map((request, index) => ... assignments[index](results))
AssignmentOf(assigns, index) == assigns[index]


(***************************************************************************)
(* db.transaction(): addQuery queues, execute() runs the queue as one      *)
(* atomic unit.                                                            *)
(***************************************************************************)
\* rowsRemoved.forEach(row => transaction.addQuery(REMOVE_JOURNAL_ROW, [db.bid(row.uuid)]))
RemoveQueries(rowsRemoved) ==
  [i \in 1..Len(rowsRemoved) |-> [op |-> "DELETE", uuid |-> rowsRemoved[i]["uuid"]]]

\* result.forEach(row => transaction.addQuery(INSERT_JOURNAL_ROW, [row]))
InsertQueries(result) ==
  [i \in 1..Len(result) |-> [op |-> "INSERT", row |-> result[i]]]

\* updates that are all keyed by the first uid of the changed rows
UpdateQueriesFirstKey(result) ==
  [i \in 1..Len(result) |-> [op |-> "UPDATE", row |-> result[i].row, uuid |-> result[1].uid]]

\* _.each(result, (row, uid) => transaction.addQuery(UPDATE_JOURNAL_ROW, [row, db.bid(uid)]))
UpdateQueries(result) ==
  [i \in 1..Len(result) |-> [op |-> "UPDATE", row |-> result[i].row, uuid |-> result[i].uid]]

\* a history row stamped with the user of the loaded row, not of the session
HistoryQueryRowUser(toEdit, userId) ==
  [op |-> "HISTORY",
   row |-> [record_uuid |-> toEdit[1]["record_uuid"], user_id |-> toEdit[1]["user_id"]]]

\* the transaction_history row of the edit
HistoryQuery(toEdit, userId) ==
  [op |-> "HISTORY", row |-> [record_uuid |-> toEdit[1]["record_uuid"], user_id |-> userId]]

\* one queued query against the tables; ok is FALSE when the store rejects it
ApplyQuery(query, st) ==
  CASE query.op = "DELETE" ->
         [st EXCEPT !.journal = [u \in DOMAIN st.journal \ {query.uuid} |-> st.journal[u]]]
    [] query.op = "INSERT" ->
         IF query.row["uuid"] \in DOMAIN st.journal
           THEN [st EXCEPT !.ok = FALSE]
           ELSE [st EXCEPT !.journal =
                   [u \in DOMAIN st.journal \cup {query.row["uuid"]} |->
                      IF u = query.row["uuid"] THEN query.row ELSE st.journal[u]]]
    [] query.op = "UPDATE" ->
         IF query.uuid \in DOMAIN st.journal
           THEN [st EXCEPT !.journal[query.uuid] = Merge(query.row, @)]
           ELSE st
    [] query.op = "HISTORY" ->
         [st EXCEPT !.history = Append(@, query.row)]

RECURSIVE ApplyQueue(_, _, _)
ApplyQueue(q, i, st) ==
  IF i > Len(q) THEN st ELSE ApplyQueue(q, i + 1, ApplyQuery(q[i], st))

\* transaction.execute(): the tables after the whole queue, or ok = FALSE
Execute(q, jrn, hist) == ApplyQueue(q, 1, [journal |-> jrn, history |-> hist, ok |-> TRUE])

(***************************************************************************)
(* The checks of editTransaction on the loaded transaction.                *)
(***************************************************************************)
\* a posted check that compares the flag with a value the query never yields
IsPostedStrict(toEdit) == toEdit[1]["posted"] > 1

\* const { posted } = transactionToEdit[0]; if (posted)
IsPosted(toEdit) == toEdit[1]["posted"] = 1

\* a lock check that compares the flag with a value the calendar never holds
IsLockedStrict(fy) == fy.locked > 1

\* if (fiscalYear.locked)
IsLocked(fy) == fy.locked = 1

allRowsRemoved(added, removed, toEdit) ==
  Len(added) = 0 /\ Len(removed) >= Len(toEdit)

singleRow(added, removed, toEdit) ==
  (Len(added) - Len(removed)) + Len(toEdit) = 1


(***************************************************************************)
(* The initial store: transaction T1 (two rows, open fiscal year) and T2   *)
(* (rows of different dates, the earlier in the locked fiscal year, in a   *)
(* project that joins no enterprise) in the posting journal, T3 posted.    *)
(***************************************************************************)
StoredRow(uuid, recordUuid, date, period, account, project, debitEquiv, creditEquiv) ==
  [ uuid |-> uuid, record_uuid |-> recordUuid, trans_date |-> date,
    fiscal_year_id |-> (CHOOSE p \in Calendar : p.id = period).fiscal_year_id,
    period_id |-> period, account_id |-> account, project_id |-> project,
    currency_id |-> 2, user_id |-> 1,
    debit |-> 2 * debitEquiv, credit |-> 2 * creditEquiv,
    debit_equiv |-> debitEquiv, credit_equiv |-> creditEquiv ]

InitialJournal ==
  ("r1" :> StoredRow("r1", "T1", 3, 201, 11, 1, 4, 0)) @@
  ("r2" :> StoredRow("r2", "T1", 3, 201, 12, 1, 0, 4)) @@
  ("s1" :> StoredRow("s1", "T2", 4, 202, 11, 2, 4, 0)) @@
  ("s2" :> StoredRow("s2", "T2", 2, 101, 12, 2, 0, 4))

\* the unposted journal with a third row in transaction T1
PairJournal ==
  InitialJournal @@ ("r3" :> StoredRow("r3", "T1", 3, 201, 11, 1, 2, 2))

InitialLedger ==
  ("g1" :> StoredRow("g1", "T3", 3, 201, 11, 1, 4, 0)) @@
  ("g2" :> StoredRow("g2", "T3", 3, 201, 12, 1, 0, 4))

(***************************************************************************)
(* The request bodies.                                                     *)
(***************************************************************************)
\* the record_uuid of the request; T9 names no transaction
Targets == {"T1", "T2", "T3", "T9"}

\* the rows a body of the request for a transaction can name: two rows of the
\* transaction and a row of another one
Candidates(target) ==
  CASE target = "T2" -> << "s1", "s2", "r1" >>
    [] target = "T3" -> << "g1", "g2", "r1" >>
    [] OTHER         -> << "r1", "r2", "s1" >>

\* body.removed: up to MaxRemoved rows, a row possibly named twice
RemovedLists(target) ==
  UNION { { [i \in 1..n |-> [uuid |-> Candidates(target)[f[i]]]] :
              f \in {g \in [1..n -> 1..3] : \A i, j \in 1..n : i < j => g[i] <= g[j]} } :
          n \in 0..MaxRemoved }

\* the uuids the client gives to new rows
NewUuids == << "n1", "n2", "n3", "n4" >>

NewRow(recordUuid, columns) ==
  Merge(columns, [ record_uuid |-> recordUuid, trans_date |-> 3, project_id |-> 1,
                   currency_id |-> 2, user_id |-> 1 ])

AddedTemplates(target) ==
  << NewRow(target, [account_number |-> 1, debit_equiv |-> 5]),
     NewRow(target, [account_number |-> 9]),
     NewRow(target, [account_label |-> 1]),
     NewRow("TX",   [account_number |-> 2, credit_equiv |-> 5]),
     NewRow(target, [account_number |-> 2, trans_date |-> 1]) >>

\* body.added: up to max new rows, each from another template, in their order
AddedLists(target, max) ==
  LET T == AddedTemplates(target)
  IN  UNION { { [i \in 1..n |-> Extend(T[f[i]], "uuid", NewUuids[i])] :
                  f \in {g \in [1..n -> 1..Len(T)] : \A i, j \in 1..n : i < j => g[i] < g[j]} } :
              n \in 0..max }

ChangedPatches ==
  { [trans_date |-> 1],
    [trans_date |-> 4, credit_equiv |-> 3],
    [trans_date |-> 5, debit_equiv |-> 5],
    [trans_date |-> 6, credit_equiv |-> 3],
    [account_number |-> 2, hrEntity |-> "E1"],
    [debit_equiv |-> 6, hrReference |-> "D1"],
    [account_number |-> 2, hrEntity |-> "EX", hrReference |-> "DX"],
    [debit_equiv |-> 0] }

\* body.changed: the changed columns of rows of the transaction, keyed by uuid, in
\* the order of the keys
ChangedMaps(target, max) ==
  LET c == Candidates(target)
  IN  { << >> }
      \cup { << [uid |-> c[k], row |-> p] >> : k \in 1..2, p \in ChangedPatches }
      \cup { << [uid |-> c[1], row |-> p], [uid |-> c[2], row |-> q] >> :
               p \in {x \in ChangedPatches : max > 1}, q \in ChangedPatches }

\* the session user of the request
Users(scope) == IF scope \in {"any", "pair"} THEN {2} ELSE {2, 3}

\* Any request: for T1 up to MaxAdded added and two changed rows, for the other
\* transactions one row less, and any removed list.
\* Plain request: for T1 or T3, at most one valid added row, one changed row and
\* one removed row.
\* Request of a pair: for T1, one row removed or the third row changed.
TargetsOf(scope) ==
  IF scope = "any" THEN Targets ELSE IF scope = "pair" THEN {"T1"} ELSE {"T1", "T3"}

AddedOf(scope, t) ==
  IF scope = "any" THEN AddedLists(t, MaxAdded - (IF t = "T1" THEN 0 ELSE 1))
  ELSE IF scope = "pair" THEN { << >> }
  ELSE { << >>,
         << Extend(NewRow(t, [account_number |-> 1, debit_equiv |-> 5]), "uuid", NewUuids[1]) >> }

ChangedOf(scope, t) ==
  IF scope = "any" THEN ChangedMaps(t, IF t = "T1" THEN 2 ELSE 1)
  ELSE IF scope = "pair"
    THEN { << >>, << [uid |-> "r3", row |-> [trans_date |-> 4, credit_equiv |-> 3]] >> }
  ELSE { << >>,
         << [uid |-> Candidates(t)[2], row |-> [account_number |-> 2, hrEntity |-> "E1"]] >>,
         << [uid |-> Candidates(t)[2], row |-> [trans_date |-> 4, credit_equiv |-> 3]] >> }

RemovedOf(scope, t) ==
  IF scope = "any" THEN RemovedLists(t)
  ELSE IF scope = "pair"
    THEN { << >>, << [uuid |-> Candidates(t)[1]] >>, << [uuid |-> Candidates(t)[2]] >> }
  ELSE { << >>, << [uuid |-> Candidates(t)[1]] >> }

Body(t, a, c, r, u) ==
  [record_uuid |-> t, added |-> a, changed |-> c, removed |-> r, user |-> u]

NoBody == [record_uuid |-> "", added |-> << >>, changed |-> << >>, removed |-> << >>, user |-> 0]
NoResponse == [status |-> 0, code |-> ""]
NoFiscalYear == [id |-> 0, fiscal_year_id |-> 0, start_date |-> 0, end_date |-> 0, locked |-> 0]

(***************************************************************************)
(* accounts/extra.js: getOpeningBalanceForDate and its four queries.       *)
(***************************************************************************)
\* fiscal_year: days 9 and later lie in no fiscal year
FiscalYearTable ==
  { [id |-> 1, start_date |-> 1, end_date |-> 2],
    [id |-> 2, start_date |-> 3, end_date |-> 6],
    [id |-> 3, start_date |-> 7, end_date |-> 8] }

\* period: the periods of the calendar and, for every fiscal year, period number 0,
\* which has no valid dates; fiscal year 3 has no other period
PeriodTable ==
  { [id |-> 100, fiscal_year_id |-> 1, number |-> 0, start_date |-> NULL, end_date |-> NULL],
    [id |-> 101, fiscal_year_id |-> 1, number |-> 1, start_date |-> 1, end_date |-> 2],
    [id |-> 200, fiscal_year_id |-> 2, number |-> 0, start_date |-> NULL, end_date |-> NULL],
    [id |-> 201, fiscal_year_id |-> 2, number |-> 1, start_date |-> 3, end_date |-> 3],
    [id |-> 202, fiscal_year_id |-> 2, number |-> 2, start_date |-> 4, end_date |-> 6],
    [id |-> 300, fiscal_year_id |-> 3, number |-> 0, start_date |-> NULL, end_date |-> NULL] }

\* SQL comparisons: never true when a side is NULL
SqlLe(a, b) == a # NULL /\ b # NULL /\ a <= b

SqlLt(a, b) == a # NULL /\ b # NULL /\ a < b

\* db.one(sql, params): the only row of the result, or a NotFound rejection
DbOne(rows) ==
  IF Cardinality(rows) = 1
    THEN [found |-> TRUE, row |-> CHOOSE r \in rows : TRUE]
    ELSE [found |-> FALSE, row |-> [id |-> 0]]

\* SELECT id FROM fiscal_year WHERE start_date <= DATE(?) AND end_date >= DATE(?)
getFiscalYearForDate(date) ==
  DbOne({ [id |-> f.id] :
            f \in {g \in FiscalYearTable : SqlLe(g.start_date, date) /\ SqlLe(date, g.end_date)} })

\* SELECT id FROM period WHERE start_date <= DATE(?) AND end_date >= DATE(?)
getPeriodForDate(date) ==
  DbOne({ [id |-> p.id] :
            p \in {q \in PeriodTable : SqlLe(q.start_date, date) /\ SqlLe(date, q.end_date)} })

RECURSIVE SumOf(_)
\* the sum of the values of a function
SumOf(f) ==
  IF DOMAIN f = {} THEN 0
  ELSE LET r == CHOOSE x \in DOMAIN f : TRUE
       IN  f[r] + SumOf([x \in DOMAIN f \ {r} |-> f[x]])

\* SUM(expr) over the selected rows: << >> is NULL, the sum of no row
SqlSum(f) == IF DOMAIN f = {} THEN << >> ELSE << SumOf(f) >>

\* IFNULL(v, d)
IfNull(v, d) == IF v = << >> THEN d ELSE v[1]

\* a period condition that also takes the period ending on the date
periodConditionEndsOn(period, date) == period.number = 0 \/ SqlLe(period.end_date, date)

\* (period.number = 0 OR DATE(period.end_date) < DATE(?))
periodCondition(period, date) == period.number = 0 \/ SqlLt(period.end_date, date)

\* the period_total rows the query of getPeriodAccountBalanceUntilDate selects
PeriodTotalRows(totals, accountId, date, fyId) ==
  { t \in totals :
      /\ t.account_id = accountId
      /\ \E p \in PeriodTable :
           /\ p.id = t.period_id
           /\ periodCondition(p, date)
           /\ p.fiscal_year_id = fyId }

getPeriodAccountBalanceUntilDate(totals, accountId, date, fyId) ==
  LET rows == PeriodTotalRows(totals, accountId, date, fyId)
  IN  [ debit   |-> IfNull(SqlSum([t \in rows |-> t.debit]), 0),
        credit  |-> IfNull(SqlSum([t \in rows |-> t.credit]), 0),
        balance |-> IfNull(SqlSum([t \in rows |-> t.debit - t.credit]), 0) ]

\* a date operator that ignores includeMaxDate
dateOperatorInclusive(includeMaxDate, a, b) == SqlLe(a, b)

\* const dateOperator = includeMaxDate ? '<=' : '<'
dateOperator(includeMaxDate, a, b) == IF includeMaxDate THEN SqlLe(a, b) ELSE SqlLt(a, b)

\* the general_ledger rows the query of getComputedAccountBalanceUntilDate selects
LedgerRows(gl, accountId, date, period, includeMaxDate) ==
  { u \in DOMAIN gl :
      /\ gl[u]["account_id"] = accountId
      /\ dateOperator(includeMaxDate, DateOf(gl[u]), date)
      /\ gl[u]["period_id"] = period }

getComputedAccountBalanceUntilDate(gl, accountId, date, period, includeMaxDate) ==
  LET rows == LedgerRows(gl, accountId, date, period, includeMaxDate)
  IN  [ debit   |-> IfNull(SqlSum([u \in rows |-> gl[u]["debit"]]), 0),
        credit  |-> IfNull(SqlSum([u \in rows |-> gl[u]["credit"]]), 0),
        balance |-> IfNull(SqlSum([u \in rows |-> gl[u]["debit_equiv"] - gl[u]["credit_equiv"]]), 0) ]

\* a result fixed to two decimals
ToFixed2(n) == ToString(n) \o ".00"

\* Number.prototype.toFixed(4) of a whole amount
ToFixed4(n) == ToString(n) \o ".0000"

\* the accounts a balance is asked for: two accounts of the chart and an account
\* without any total or line
BalanceAccounts == Range(AccountTable) \cup {13}

\* general_ledger besides the posted transaction T3: lines of period 202
LedgerLines ==
  ("l1" :> StoredRow("l1", "T4", 4, 202, 11, 1, 3, 0)) @@
  ("l2" :> StoredRow("l2", "T4", 5, 202, 11, 1, 0, 1)) @@
  ("l3" :> StoredRow("l3", "T5", 6, 202, 11, 1, 2, 0)) @@
  ("l4" :> StoredRow("l4", "T4", 5, 202, 12, 1, 0, 2))

\* the general ledgers a balance is computed over
Ledgers ==
  { [u \in DOMAIN InitialLedger \cup {"l4"} \cup S |->
       IF u \in DOMAIN InitialLedger THEN InitialLedger[u] ELSE LedgerLines[u]] :
      S \in SUBSET {"l1", "l2", "l3"} }

PeriodTotalRow(account, period, debitTotal, creditTotal) ==
  [account_id |-> account, period_id |-> period, debit |-> debitTotal, credit |-> creditTotal]

\* the period_total tables a balance is computed over: the totals of account 12 and
\* of fiscal year 1, and any of the totals of account 11 in fiscal years 2 and 3
PeriodTotals ==
  { { PeriodTotalRow(11, 100, 40, 0), PeriodTotalRow(11, 101, 7, 2),
      PeriodTotalRow(12, 200, 0, 50), PeriodTotalRow(12, 201, 1, 1) } \cup S :
      S \in SUBSET { PeriodTotalRow(11, 200, 100, 0), PeriodTotalRow(11, 201, 20, 5),
                     PeriodTotalRow(11, 202, 8, 3), PeriodTotalRow(11, 300, 100, 0) } }

NoCall == [accountId |-> 0, date |-> 0, includeMaxDate |-> FALSE]
NoSums == [debit |-> 0, credit |-> 0, balance |-> 0]
NoOpening == [error |-> "", balance |-> "", credit |-> "", debit |-> ""]

\* the request-local variables of an edit request, as they are before it arrives
IdleRequest ==
  [ pc |-> "idle", body |-> NoBody, rowsAdded |-> << >>, rowsChanged |-> << >>,
    queue |-> << >>, transactionToEdit |-> << >>, transDate |-> 0,
    fiscalYear |-> NoFiscalYear, databaseRequests |-> << >>, databaseValues |-> << >>,
    assignments |-> << >>, pending |-> {}, response |-> NoResponse,
    pre |-> InitialJournal, preHistory |-> << >>, issued |-> 0, committed |-> FALSE ]

\* no second edit request, no reversal and no permission tree
NothingAside ==
  /\ parked = IdleRequest
  /\ voucher = {}
  /\ reversals = << >>
  /\ units = << >>
  /\ super = FALSE

\* no call of getOpeningBalanceForDate is in progress
NoCallInProgress ==
  /\ periodTotal = {}
  /\ call = NoCall
  /\ step = "ready"
  /\ fiscalYearId = 0
  /\ previousPeriodClosing = NoSums
  /\ balance = 0
  /\ credit = 0
  /\ debit = 0
  /\ periodId = 0
  /\ runningPeriod = NoSums
  /\ opening = NoOpening

(***************************************************************************)
(* Initial state.                                                          *)
(***************************************************************************)
Init ==
  /\ journal = InitialJournal
  /\ ledger = InitialLedger
  /\ history = << >>
  /\ pc = "idle"
  /\ body = NoBody
  /\ rowsAdded = << >>
  /\ rowsChanged = << >>
  /\ queue = << >>
  /\ transactionToEdit = << >>
  /\ transDate = 0
  /\ fiscalYear = NoFiscalYear
  /\ databaseRequests = << >>
  /\ databaseValues = << >>
  /\ assignments = << >>
  /\ pending = {}
  /\ response = NoResponse
  /\ pre = InitialJournal
  /\ preHistory = << >>
  /\ issued = 0
  /\ committed = FALSE
  /\ commits = << >>
  /\ editsLeft = 1
  /\ requests = "any"
  /\ NoCallInProgress
  /\ NothingAside

\* up to MaxEdits plain requests, one after the other
InitSeq ==
  /\ journal = InitialJournal
  /\ ledger = InitialLedger
  /\ history = << >>
  /\ pc = "idle"
  /\ body = NoBody
  /\ rowsAdded = << >>
  /\ rowsChanged = << >>
  /\ queue = << >>
  /\ transactionToEdit = << >>
  /\ transDate = 0
  /\ fiscalYear = NoFiscalYear
  /\ databaseRequests = << >>
  /\ databaseValues = << >>
  /\ assignments = << >>
  /\ pending = {}
  /\ response = NoResponse
  /\ pre = InitialJournal
  /\ preHistory = << >>
  /\ issued = 0
  /\ committed = FALSE
  /\ commits = << >>
  /\ editsLeft = MaxEdits
  /\ requests = "plain"
  /\ NoCallInProgress
  /\ NothingAside

\* no edit request has arrived; left requests of the scope may come
EditAtRest(jrn, left, scope) ==
  /\ journal = jrn
  /\ ledger = InitialLedger
  /\ history = << >>
  /\ pc = "idle"
  /\ body = NoBody
  /\ rowsAdded = << >>
  /\ rowsChanged = << >>
  /\ queue = << >>
  /\ transactionToEdit = << >>
  /\ transDate = 0
  /\ fiscalYear = NoFiscalYear
  /\ databaseRequests = << >>
  /\ databaseValues = << >>
  /\ assignments = << >>
  /\ pending = {}
  /\ response = NoResponse
  /\ pre = InitialJournal
  /\ preHistory = << >>
  /\ issued = 0
  /\ committed = FALSE
  /\ commits = << >>
  /\ editsLeft = left
  /\ requests = scope

(***************************************************************************)
(* editTransaction, one action per callback of its promise chain.          *)
(***************************************************************************)
\* .catch(next): the error reaches the caller and the chain ends
Fails(status, code) ==
  /\ response' = [status |-> status, code |-> code]
  /\ pc' = "done"
  /\ pending' = {}

\* lines 238-258: the request arrives, the deletions are queued, the load is issued
EditTransaction(b) ==
  /\ pc \in {"idle", "done"}
  /\ editsLeft > 0
  /\ editsLeft' = editsLeft - 1
  /\ body' = b
  /\ rowsAdded' = b.added
  /\ rowsChanged' = b.changed
  /\ queue' = RemoveQueries(b.removed)
  /\ pc' = "lookup"
  /\ transactionToEdit' = << >>
  /\ transDate' = 0
  /\ fiscalYear' = NoFiscalYear
  /\ databaseRequests' = << >>
  /\ databaseValues' = << >>
  /\ assignments' = << >>
  /\ pending' = {}
  /\ response' = NoResponse
  /\ pre' = journal
  /\ preHistory' = history
  /\ issued' = 0
  /\ committed' = FALSE
  /\ UNCHANGED << journal, ledger, history, commits, requests >>
  /\ UNCHANGED << balanceVars, sideVars >>

\* lines 50-65 and 259-287: the transaction is loaded and checked
TransactionLoaded ==
  /\ pc = "lookup"
  /\ \E toEdit \in naiveTransactionSearch(journal, ledger, body.record_uuid) :
       /\ transactionToEdit' = toEdit
       /\ IF Len(toEdit) = 0
            THEN Fails(404, "NOT_FOUND") /\ UNCHANGED transDate
          ELSE IF IsPosted(toEdit)
            THEN Fails(400, "TRANSACTION_ALREADY_POSTED") /\ UNCHANGED transDate
          ELSE IF allRowsRemoved(rowsAdded, body.removed, toEdit)
                    \/ singleRow(rowsAdded, body.removed, toEdit)
            THEN Fails(400, "TRANSACTION_MUST_CONTAIN_ROWS") /\ UNCHANGED transDate
          ELSE /\ transDate' = getTransactionDate(rowsChanged, toEdit)
               /\ pc' = "fiscal"
               /\ UNCHANGED << response, pending >>
  /\ UNCHANGED << journal, ledger, history, body, rowsAdded, rowsChanged, queue,
                  fiscalYear, databaseRequests, databaseValues, assignments, pre,
                  preHistory, issued, committed, commits, editsLeft, requests >>
  /\ UNCHANGED << balanceVars, sideVars >>


\* lines 288-300: the fiscal year of the transaction date is known; the added rows
\* are handed to transformColumns, which issues their lookups
FiscalYearLoaded ==
  /\ pc = "fiscal"
  /\ LET found == LookupFiscalYearByDate(transDate)
     IN  IF found = {}
           THEN /\ Fails(404, "NOT_FOUND")
                /\ UNCHANGED << fiscalYear, rowsAdded, databaseRequests, databaseValues,
                                assignments, issued >>
           ELSE \E fy \in found :
                  /\ fiscalYear' = fy
                  /\ IF IsLocked(fy)
                       THEN /\ Fails(400, "CLOSED_FISCAL_YEAR")
                            /\ UNCHANGED << rowsAdded, databaseRequests, databaseValues,
                                            assignments, issued >>
                       ELSE LET t == transformColumns(rowsAdded, TRUE, transactionToEdit, fy)
                            IN  IF t.throws
                                  THEN /\ Fails(400, "EDIT_INVALID_ACCOUNT")
                                       /\ UNCHANGED << rowsAdded, databaseRequests,
                                                       databaseValues, assignments, issued >>
                                  ELSE /\ rowsAdded' = t.rows
                                       /\ databaseRequests' = t.databaseRequests
                                       /\ databaseValues' = t.databaseValues
                                       /\ assignments' = t.assignments
                                       /\ pending' = 1..Len(t.databaseRequests)
                                       /\ issued' = issued + Len(t.databaseRequests)
                                       /\ pc' = "added"
                                       /\ UNCHANGED response
  /\ UNCHANGED << journal, ledger, history, body, rowsChanged, queue, transactionToEdit,
                  transDate, pre, preHistory, committed, commits, editsLeft, requests >>
  /\ UNCHANGED << balanceVars, sideVars >>

\* lines 489-491: one lookup settles and its assignment runs; a throwing assignment
\* rejects q.all and the chain ends at .catch(next)
LookupSettled(index) ==
  /\ pc \in {"added", "changed"}
  /\ index \in pending
  /\ LET result == DbExec(databaseRequests[index], databaseValues[index])
         rows == IF pc = "added" THEN rowsAdded
                 ELSE [k \in 1..Len(rowsChanged) |-> rowsChanged[k].row]
         out == Assign(AssignmentOf(assignments, index), result, rows)
     IN  IF out.error # ""
           THEN /\ Fails(IF out.error = "TypeError" THEN 500 ELSE 400, out.error)
                /\ UNCHANGED << rowsAdded, rowsChanged >>
           ELSE /\ pending' = pending \ {index}
                /\ IF pc = "added"
                     THEN rowsAdded' = out.rows /\ UNCHANGED rowsChanged
                     ELSE /\ rowsChanged' = [k \in 1..Len(rowsChanged) |->
                                               [uid |-> rowsChanged[k].uid, row |-> out.rows[k]]]
                          /\ UNCHANGED rowsAdded
                /\ UNCHANGED << pc, response >>
  /\ UNCHANGED << journal, ledger, history, body, queue, transactionToEdit, transDate,
                  fiscalYear, databaseRequests, databaseValues, assignments, pre,
                  preHistory, issued, committed, commits, editsLeft, requests >>
  /\ UNCHANGED << balanceVars, sideVars >>

\* lines 301-308: every lookup of the added rows has settled; their insertions are
\* queued and the changed rows are handed to transformColumns
AddedTransformed ==
  /\ pc = "added"
  /\ pending = {}
  /\ queue' = queue \o InsertQueries(rowsAdded)
  /\ LET t == transformColumns([k \in 1..Len(rowsChanged) |-> rowsChanged[k].row],
                               FALSE, transactionToEdit, fiscalYear)
     IN  /\ rowsChanged' = [k \in 1..Len(rowsChanged) |->
                              [uid |-> rowsChanged[k].uid, row |-> t.rows[k]]]
         /\ databaseRequests' = t.databaseRequests
         /\ databaseValues' = t.databaseValues
         /\ assignments' = t.assignments
         /\ pending' = 1..Len(t.databaseRequests)
         /\ issued' = issued + Len(t.databaseRequests)
  /\ pc' = "changed"
  /\ UNCHANGED << journal, ledger, history, body, rowsAdded, transactionToEdit, transDate,
                  fiscalYear, response, pre, preHistory, committed, commits, editsLeft, requests >>
  /\ UNCHANGED << balanceVars, sideVars >>

\* lines 309-326: every lookup of the changed rows has settled; their updates and
\* the history record are queued and the transaction is executed
ChangedTransformed ==
  /\ pc = "changed"
  /\ pending = {}
  /\ queue' = queue \o UpdateQueries(rowsChanged)
                    \o << HistoryQuery(transactionToEdit, body.user) >>
  /\ pc' = "execute"
  /\ UNCHANGED << journal, ledger, history, body, rowsAdded, rowsChanged,
                  transactionToEdit, transDate, fiscalYear, databaseRequests,
                  databaseValues, assignments, pending, response, pre, preHistory,
                  issued, committed, commits, editsLeft, requests >>
  /\ UNCHANGED << balanceVars, sideVars >>

\* transaction.execute() resolves: the whole queue is applied
ExecuteCommits ==
  /\ pc = "execute"
  /\ LET st == Execute(queue, journal, history)
     IN  /\ st.ok
         /\ journal' = st.journal
         /\ history' = st.history
  /\ committed' = TRUE
  /\ commits' = Append(commits, [record_uuid |-> body.record_uuid, user_id |-> body.user])
  /\ pc' = "reload"
  /\ UNCHANGED << ledger, body, rowsAdded, rowsChanged, queue, transactionToEdit,
                  transDate, fiscalYear, databaseRequests, databaseValues, assignments,
                  pending, response, pre, preHistory, issued, editsLeft, requests >>
  /\ UNCHANGED << balanceVars, sideVars >>

\* transaction.execute() rejects (a constraint, the connection): nothing is applied
ExecuteFails ==
  /\ pc = "execute"
  /\ Fails(500, "STORE_FAILURE")
  /\ UNCHANGED << journal, ledger, history, body, rowsAdded, rowsChanged, queue,
                  transactionToEdit, transDate, fiscalYear, databaseRequests,
                  databaseValues, assignments, pre, preHistory, issued, committed,
                  commits, editsLeft, requests >>
  /\ UNCHANGED << balanceVars, sideVars >>

\* lines 327-333: the transaction is loaded again and sent to the caller
Reloaded ==
  /\ pc = "reload"
  /\ IF Find(journal, ledger, body.record_uuid) = {}
       THEN Fails(404, "NOT_FOUND")
       ELSE /\ response' = [status |-> 200, code |-> ""]
            /\ pc' = "done"
            /\ UNCHANGED pending
  /\ UNCHANGED << journal, ledger, history, body, rowsAdded, rowsChanged, queue,
                  transactionToEdit, transDate, fiscalYear, databaseRequests,
                  databaseValues, assignments, pre, preHistory, issued, committed,
                  commits, editsLeft, requests >>
  /\ UNCHANGED << balanceVars, sideVars >>

\* the query of the second lookupTransaction rejects
ReloadFails ==
  /\ pc = "reload"
  /\ Fails(500, "STORE_FAILURE")
  /\ UNCHANGED << journal, ledger, history, body, rowsAdded, rowsChanged, queue,
                  transactionToEdit, transDate, fiscalYear, databaseRequests,
                  databaseValues, assignments, pre, preHistory, issued, committed,
                  commits, editsLeft, requests >>
  /\ UNCHANGED << balanceVars, sideVars >>

Next ==
  \/ /\ pc \in {"idle", "done"}
     /\ editsLeft > 0
     /\ \E t \in TargetsOf(requests), u \in Users(requests) :
          \E a \in AddedOf(requests, t) :
            \E c \in ChangedOf(requests, t) :
              \E r \in RemovedOf(requests, t) : EditTransaction(Body(t, a, c, r, u))
  \/ TransactionLoaded
  \/ FiscalYearLoaded
  \/ \E index \in pending : LookupSettled(index)
  \/ AddedTransformed
  \/ ChangedTransformed
  \/ ExecuteCommits
  \/ ExecuteFails
  \/ Reloaded
  \/ ReloadFails

Spec == Init /\ [][Next]_vars

SpecSeq == InitSeq /\ [][Next]_vars


(***************************************************************************)
(* getOpeningBalanceForDate, one action per callback of its promise chain, *)
(* over any of the period_total tables and general ledgers.                *)
(***************************************************************************)
InitBalance ==
  /\ journal = InitialJournal
  /\ ledger \in Ledgers
  /\ history = << >>
  /\ pc = "idle"
  /\ body = NoBody
  /\ rowsAdded = << >>
  /\ rowsChanged = << >>
  /\ queue = << >>
  /\ transactionToEdit = << >>
  /\ transDate = 0
  /\ fiscalYear = NoFiscalYear
  /\ databaseRequests = << >>
  /\ databaseValues = << >>
  /\ assignments = << >>
  /\ pending = {}
  /\ response = NoResponse
  /\ pre = InitialJournal
  /\ preHistory = << >>
  /\ issued = 0
  /\ committed = FALSE
  /\ commits = << >>
  /\ editsLeft = 0
  /\ requests = "none"
  /\ periodTotal \in PeriodTotals
  /\ call = NoCall
  /\ step = "ready"
  /\ fiscalYearId = 0
  /\ previousPeriodClosing = NoSums
  /\ balance = 0
  /\ credit = 0
  /\ debit = 0
  /\ periodId = 0
  /\ runningPeriod = NoSums
  /\ opening = NoOpening
  /\ NothingAside

\* the promise of getOpeningBalanceForDate is rejected
Rejected(code) ==
  /\ opening' = [NoOpening EXCEPT !.error = code]
  /\ step' = "rejected"

\* lines 125-130: the call arrives and the fiscal year of the date is asked for
GetOpeningBalanceForDate(accountId, date, includeMaxDate) ==
  /\ step \in {"ready", "resolved", "rejected"}
  /\ call' = [accountId |-> accountId, date |-> date, includeMaxDate |-> includeMaxDate]
  /\ balance' = 0
  /\ credit' = 0
  /\ debit' = 0
  /\ fiscalYearId' = 0
  /\ previousPeriodClosing' = NoSums
  /\ periodId' = 0
  /\ runningPeriod' = NoSums
  /\ opening' = NoOpening
  /\ step' = "getFiscalYearForDate"
  /\ UNCHANGED << journal, ledger, editVars, sideVars, periodTotal >>

\* lines 21-28 and 133-134: the fiscal year is known and the period totals are asked for
FiscalYearResolved ==
  /\ step = "getFiscalYearForDate"
  /\ LET data == getFiscalYearForDate(call.date)
     IN  IF data.found
           THEN /\ fiscalYearId' = data.row.id
                /\ step' = "getPeriodAccountBalanceUntilDate"
                /\ UNCHANGED opening
           ELSE Rejected("NOT_FOUND") /\ UNCHANGED fiscalYearId
  /\ UNCHANGED << journal, ledger, editVars, sideVars, periodTotal, call, previousPeriodClosing,
                  balance, credit, debit, periodId, runningPeriod >>

\* lines 65-86 and 137-143: the closing of the previous periods is added to the
\* accumulators and the period of the date is asked for
PreviousPeriodClosing ==
  /\ step = "getPeriodAccountBalanceUntilDate"
  /\ LET closing == getPeriodAccountBalanceUntilDate(periodTotal, call.accountId,
                                                     call.date, fiscalYearId)
     IN  /\ previousPeriodClosing' = closing
         /\ balance' = balance + closing.balance
         /\ credit' = credit + closing.credit
         /\ debit' = debit + closing.debit
  /\ step' = "getPeriodForDate"
  /\ UNCHANGED << journal, ledger, editVars, sideVars, periodTotal, call, fiscalYearId, periodId,
                  runningPeriod, opening >>

\* lines 41-48 and 147-148: the period is known and the ledger lines are asked for
PeriodResolved ==
  /\ step = "getPeriodForDate"
  /\ LET data == getPeriodForDate(call.date)
     IN  IF data.found
           THEN /\ periodId' = data.row.id
                /\ step' = "getComputedAccountBalanceUntilDate"
                /\ UNCHANGED opening
           ELSE Rejected("NOT_FOUND") /\ UNCHANGED periodId
  /\ UNCHANGED << journal, ledger, editVars, sideVars, periodTotal, call, fiscalYearId,
                  previousPeriodClosing, balance, credit, debit, runningPeriod >>

\* lines 95-110 and 149-155: the running period is added and the three figures are
\* returned, fixed to four decimals
RunningPeriod ==
  /\ step = "getComputedAccountBalanceUntilDate"
  /\ LET running == getComputedAccountBalanceUntilDate(ledger, call.accountId, call.date,
                                                       periodId, call.includeMaxDate)
     IN  /\ runningPeriod' = running
         /\ opening' = [ error   |-> "",
                         balance |-> ToFixed4(balance + running.balance),
                         credit  |-> ToFixed4(credit + running.credit),
                         debit   |-> ToFixed4(debit + running.debit) ]
  /\ step' = "resolved"
  /\ UNCHANGED << journal, ledger, editVars, sideVars, periodTotal, call, fiscalYearId,
                  previousPeriodClosing, balance, credit, debit, periodId >>

NextBalance ==
  \/ \E accountId \in BalanceAccounts, date \in 1..MaxDate, includeMaxDate \in BOOLEAN :
       GetOpeningBalanceForDate(accountId, date, includeMaxDate)
  \/ FiscalYearResolved
  \/ PreviousPeriodClosing
  \/ PeriodResolved
  \/ RunningPeriod

SpecBalance == InitBalance /\ [][NextBalance]_vars

(***************************************************************************)
(* Two edit requests in flight.  The server runs one callback at a time;   *)
(* between two callbacks of one request a callback of the other request    *)
(* may run.  The request that is not running keeps its local variables in  *)
(* parked.                                                                 *)
(***************************************************************************)
\* the local variables of the running request
Running ==
  [ pc |-> pc, body |-> body, rowsAdded |-> rowsAdded, rowsChanged |-> rowsChanged,
    queue |-> queue, transactionToEdit |-> transactionToEdit, transDate |-> transDate,
    fiscalYear |-> fiscalYear, databaseRequests |-> databaseRequests,
    databaseValues |-> databaseValues, assignments |-> assignments,
    pending |-> pending, response |-> response, pre |-> pre,
    preHistory |-> preHistory, issued |-> issued, committed |-> committed ]

\* the next callback to run belongs to the other request
Switch ==
  /\ parked' = Running
  /\ pc' = parked.pc
  /\ body' = parked.body
  /\ rowsAdded' = parked.rowsAdded
  /\ rowsChanged' = parked.rowsChanged
  /\ queue' = parked.queue
  /\ transactionToEdit' = parked.transactionToEdit
  /\ transDate' = parked.transDate
  /\ fiscalYear' = parked.fiscalYear
  /\ databaseRequests' = parked.databaseRequests
  /\ databaseValues' = parked.databaseValues
  /\ assignments' = parked.assignments
  /\ pending' = parked.pending
  /\ response' = parked.response
  /\ pre' = parked.pre
  /\ preHistory' = parked.preHistory
  /\ issued' = parked.issued
  /\ committed' = parked.committed
  /\ UNCHANGED << journal, ledger, history, commits, editsLeft, requests >>
  /\ UNCHANGED << balanceVars, voucher, reversals, units, super >>

\* two requests for transaction T1, which has three rows
InitPair ==
  /\ EditAtRest(PairJournal, 2, "pair")
  /\ NoCallInProgress
  /\ NothingAside

NextPair == Next \/ Switch

SpecPair == InitPair /\ [][NextPair]_vars

(***************************************************************************)
(* Posting: the rows of a transaction leave the posting journal for the    *)
(* general ledger, at any moment of an edit request.                       *)
(***************************************************************************)
Post(recordUuid) ==
  LET moved == {u \in DOMAIN journal : journal[u]["record_uuid"] = recordUuid}
  IN  /\ moved # {}
      /\ journal' = [u \in DOMAIN journal \ moved |-> journal[u]]
      /\ ledger' = [u \in DOMAIN ledger \cup moved |->
                      IF u \in moved THEN journal[u] ELSE ledger[u]]
      /\ UNCHANGED << editVars, balanceVars, sideVars >>

\* one plain request
InitPost ==
  /\ EditAtRest(InitialJournal, 1, "plain")
  /\ NoCallInProgress
  /\ NothingAside

NextPost == Next \/ \E recordUuid \in {"T1", "T2"} : Post(recordUuid)

SpecPost == InitPost /\ [][NextPost]_vars

(***************************************************************************)
(* reverse (POST /journal/:uuid/reverse), one action per callback of its   *)
(* promise chain, for up to MaxReverse requests in flight.                 *)
(***************************************************************************)
CANCELLED_ID == 10

\* SELECT uuid FROM voucher WHERE voucher.type_id = CANCELLED_ID AND
\* voucher.reference_uuid = ?
CancellingVouchers(table, recordUuid) ==
  {v \in table : v.type_id = CANCELLED_ID /\ v.reference_uuid = recordUuid}

\* the stored procedure writes the voucher that cancels the record
ReverseTransaction(table, recordUuid, voucherUuid) ==
  table \cup {[uuid |-> voucherUuid, type_id |-> CANCELLED_ID, reference_uuid |-> recordUuid]}

\* lines 507-528: the request arrives, a voucher uuid is drawn, the query is issued
Reverse(recordUuid) ==
  /\ Len(reversals) < MaxReverse
  /\ reversals' = Append(reversals,
                     [ recordUuid |-> recordUuid, voucherUuid |-> Len(reversals) + 1,
                       pc |-> "query", called |-> FALSE, response |-> NoResponse,
                       uuid |-> 0 ])
  /\ UNCHANGED << journal, ledger, editVars, balanceVars, parked, voucher, units, super >>

\* lines 529-538: the rows of the query are looked at; the procedure is called
\* when there is none
CancelledChecked(i) ==
  /\ reversals[i].pc = "query"
  /\ IF Cardinality(CancellingVouchers(voucher, reversals[i].recordUuid)) > 0
       THEN reversals' = [reversals EXCEPT
                            ![i].pc = "done",
                            ![i].response = [status |-> 400, code |-> "MULTIPLE_CANCELLING"]]
       ELSE reversals' = [reversals EXCEPT ![i].pc = "call", ![i].called = TRUE]
  /\ UNCHANGED << journal, ledger, editVars, balanceVars, parked, voucher, units, super >>

\* lines 537-539: the procedure has run, the voucher uuid is sent with 201
Reversed(i) ==
  /\ reversals[i].pc = "call"
  /\ voucher' = ReverseTransaction(voucher, reversals[i].recordUuid, reversals[i].voucherUuid)
  /\ reversals' = [reversals EXCEPT
                     ![i].pc = "done",
                     ![i].response = [status |-> 201, code |-> ""],
                     ![i].uuid = reversals[i].voucherUuid]
  /\ UNCHANGED << journal, ledger, editVars, balanceVars, parked, units, super >>

\* line 540: a query of the chain rejects, the error goes to next
ReverseFails(i) ==
  /\ reversals[i].pc \in {"query", "call"}
  /\ reversals' = [reversals EXCEPT
                     ![i].pc = "done",
                     ![i].response = [status |-> 500, code |-> "STORE_FAILURE"]]
  /\ UNCHANGED << journal, ledger, editVars, balanceVars, parked, voucher, units, super >>

InitReverse ==
  /\ EditAtRest(InitialJournal, 0, "none")
  /\ NoCallInProgress
  /\ NothingAside

NextReverse ==
  \/ \E recordUuid \in {"T1", "T3"} : Reverse(recordUuid)
  \/ \E i \in DOMAIN reversals : CancelledChecked(i)
  \/ \E i \in DOMAIN reversals : Reversed(i)
  \/ \E i \in DOMAIN reversals : ReverseFails(i)

SpecReverse == InitReverse /\ [][NextReverse]_vars

(***************************************************************************)
(* The permission tree of userPermission.modal.js: toggleParents and       *)
(* toggleUnitChildren over vm.units.                                       *)
(***************************************************************************)
\* the units of GET /units: id -> parent; 0 is the parent of the top units
UnitParent ==
  (1 :> 0) @@ (2 :> 1) @@ (3 :> 2) @@ (4 :> 2) @@ (5 :> 0) @@ (6 :> 5) @@ (7 :> 6) @@
  (8 :> 5)

UnitIds == DOMAIN UnitParent

\* vm.units with these boxes checked
UnitsWith(checked) ==
  [id \in UnitIds |-> [id |-> id, parent |-> UnitParent[id], checked |-> checked[id]]]

\* the value handed to toggleParents: a unit of vm.units, or an array of units
UnitValue(id) == [array |-> FALSE, id |-> id]
ArrayValue(id) == [array |-> TRUE, id |-> id]

\* value.parent and value.checked; an array has neither property (undefined)
ParentOf(us, value) == IF value.array THEN NULL ELSE us[value.id].parent
CheckedOf(us, value) == IF value.array THEN FALSE ELSE us[value.id].checked

\* lines 87-98; line 95 hands on parent, the array that filter() returned
RECURSIVE toggleParents(_, _)
toggleParents(us, unit) ==
  IF ParentOf(us, unit) # 0 /\ CheckedOf(us, unit)
    THEN LET parent == ParentOf(us, unit)
             checked == [us EXCEPT ![parent].checked = CheckedOf(us, unit)]
         IN  IF Truthy(checked[parent], "parent")
               THEN toggleParents(checked, ArrayValue(parent))
               ELSE checked
    ELSE us

\* lines 101-114; children.forEach visits the units whose parent is the unit
RECURSIVE toggleUnitChildren(_, _), forEachChild(_, _, _)
toggleUnitChildren(st, id) ==
  LET unchecked == IF ~st.units[id].checked THEN [st EXCEPT !.super = FALSE] ELSE st
      upwards == IF unchecked.units[id].parent # 0
                   THEN [unchecked EXCEPT !.units = toggleParents(@, UnitValue(id))]
                   ELSE unchecked
  IN  forEachChild(upwards, id, 1)

forEachChild(st, id, node) ==
  IF node \notin UnitIds THEN st
  ELSE IF UnitParent[node] # id THEN forEachChild(st, id, node + 1)
  ELSE LET set == [st EXCEPT !.units[node].checked = st.units[id].checked]
       IN  forEachChild(toggleUnitChildren(set, node), id, node + 1)

\* the box of a unit is set (ng-model) and toggleUnitChildren(unit, unit.children) runs
ToggleUnitChildren(id, checked) ==
  LET st == toggleUnitChildren(
              [units |-> [units EXCEPT ![id].checked = checked], super |-> super], id)
  IN  /\ units' = st.units
      /\ super' = st.super
      /\ UNCHANGED << journal, ledger, editVars, balanceVars, parked, voucher, reversals >>

\* every checked unit has its parent checked
ParentsChecked(us) ==
  \A id \in DOMAIN us : (us[id].checked /\ us[id].parent # 0) => us[us[id].parent].checked

\* lines 53-65: the tree as loaded, any permissions in which ParentsChecked holds
InitTree ==
  /\ EditAtRest(InitialJournal, 0, "none")
  /\ NoCallInProgress
  /\ parked = IdleRequest
  /\ voucher = {}
  /\ reversals = << >>
  /\ units \in {us \in {UnitsWith(c) : c \in [UnitIds -> BOOLEAN]} : ParentsChecked(us)}
  /\ super \in BOOLEAN

NextTree == \E id \in UnitIds, checked \in BOOLEAN : ToggleUnitChildren(id, checked)

SpecTree == InitTree /\ [][NextTree]_vars

(***************************************************************************)
(* Vocabulary of the properties.                                           *)
(***************************************************************************)
\* the request has been answered with this error
FailedWith(status, code) ==
  pc = "done" /\ response = [status |-> status, code |-> code]

\* no row mutation and no history record of the request is visible
StoreUntouched == journal = pre /\ history = preHistory

\* the transaction has been loaded (and is not empty)
Loaded == Len(transactionToEdit) > 0

\* the date lies in a locked fiscal year
InLockedYear(date) ==
  \E p \in Calendar : p.start_date <= date /\ date <= p.end_date /\ p.locked = 1

\* the dates the changed rows of the request carry, in key order
ChangedDates ==
  LET dated == SelectSeq(body.changed, LAMBDA c : Truthy(c.row, "trans_date"))
  IN  [i \in 1..Len(dated) |-> dated[i].row["trans_date"]]

\* the amount in the transaction's currency that corresponds to an enterprise
\* amount on a date, NULL when the rate is unknown, for a project of an enterprise
Converted(amount, date) ==
  IF transactionToEdit[1]["currency_id"]
       = EnterpriseOfProject[transactionToEdit[1]["project_id"]].currency_id
    THEN amount
  ELSE IF date \in DOMAIN RateOn /\ RateOn[date] # NULL THEN amount * RateOn[date]
  ELSE NULL

\* the value a lookup has to write into a column of a row of the request
Resolved(row, column) ==
  CASE column = "account_id"     -> AccountTable[row["account_number"]]
    [] column = "entity_uuid"    -> EntityMap[row["hrEntity"]]
    [] column = "reference_uuid" -> DocumentMap[row["hrReference"]]
    [] column = "debit"  ->
         Converted(row["debit_equiv"], RateDate(row, DateOf(transactionToEdit[1])))
    [] column = "credit" ->
         Converted(row["credit_equiv"], RateDate(row, DateOf(transactionToEdit[1])))

\* the column of the request row that makes transformColumns schedule the lookup
CodeColumn(column) ==
  CASE column = "account_id"     -> "account_number"
    [] column = "entity_uuid"    -> "hrEntity"
    [] column = "reference_uuid" -> "hrReference"
    [] column = "debit"          -> "debit_equiv"
    [] column = "credit"         -> "credit_equiv"

LookupColumns == {"account_id", "entity_uuid", "reference_uuid", "debit", "credit"}

\* the lookup a row of the request needs for a column can be answered
Resolvable(row, column) ==
  CASE column = "account_id"     -> row["account_number"] \in DOMAIN AccountTable
    [] column = "entity_uuid"    -> row["hrEntity"] \in DOMAIN EntityMap
    [] column = "reference_uuid" -> row["hrReference"] \in DOMAIN DocumentMap
    [] column \in {"debit", "credit"} ->
         /\ transactionToEdit[1]["project_id"] \in DOMAIN EnterpriseOfProject
         /\ Resolved(row, column) \notin {0, NULL}

\* every lookup the rows need can be answered
AllResolvable(rows) ==
  \A i \in 1..Len(rows) : \A col \in LookupColumns :
    Truthy(rows[i], CodeColumn(col)) => Resolvable(rows[i], col)

BodyChangedRows == [k \in 1..Len(body.changed) |-> body.changed[k].row]


(***************************************************************************)
(* C1.  Row-count invariant: an edit of an existing unposted transaction   *)
(* that would leave fewer than two rows (existing - removed + added < 2,   *)
(* results of 0 or below included) fails with                              *)
(* TRANSACTION_MUST_CONTAIN_ROWS and commits nothing.                      *)
(***************************************************************************)
RowsLeft == (Len(transactionToEdit) - Len(body.removed)) + Len(body.added)

C1_TooFewRowsRejected ==
  (Loaded /\ transactionToEdit[1]["posted"] = 0 /\ RowsLeft < 2)
    => (FailedWith(400, "TRANSACTION_MUST_CONTAIN_ROWS") /\ StoreUntouched)

(***************************************************************************)
(* C2.  Immutability of posted transactions: when the loaded rows report   *)
(* posted, the edit fails with TRANSACTION_ALREADY_POSTED whatever the     *)
(* body contains, and the store is left unchanged.                         *)
(***************************************************************************)
C2_PostedNeverEdited ==
  (Loaded /\ \A i \in 1..Len(transactionToEdit) : transactionToEdit[i]["posted"] = 1)
    => /\ FailedWith(400, "TRANSACTION_ALREADY_POSTED")
       /\ StoreUntouched
       /\ ledger = InitialLedger

C2_PostedEditRefused ==
  /\ FailedWith(400, "TRANSACTION_ALREADY_POSTED")
  /\ Len(body.added) > 0 /\ Len(body.changed) > 0 /\ Len(body.removed) > 0

(***************************************************************************)
(* C3.  Fiscal lock enforcement: when the effective transaction date lies  *)
(* in a locked fiscal year the edit fails with CLOSED_FISCAL_YEAR, and no  *)
(* lookup of transformColumns has been issued.                             *)
(***************************************************************************)
C3_LockedYearRefusedBeforeTransform ==
  (transDate # 0 /\ InLockedYear(transDate))
    => /\ issued = 0
       /\ StoreUntouched
       /\ pc = "fiscal" \/ FailedWith(400, "CLOSED_FISCAL_YEAR")

C3_LockedEditWithLookupsRefused ==
  /\ FailedWith(400, "CLOSED_FISCAL_YEAR")
  /\ \E i \in 1..Len(body.added) : Truthy(body.added[i], "account_number")
  /\ \E k \in 1..Len(body.changed) : Truthy(body.changed[k].row, "debit_equiv")

(***************************************************************************)
(* C4.  Atomicity under lookup failure: the commit is started only after   *)
(* the posted check, the row-count check, the lock check and every lookup  *)
(* of the added and of the changed rows have succeeded; an edit that ends  *)
(* with a lookup error leaves no deletion, insertion, update or history    *)
(* record behind, although its deletions were queued before the load.      *)
(***************************************************************************)
LookupErrors ==
  { "EDIT_INVALID_ACCOUNT", "EDIT_INVALID_ENTITY", "EDIT_INVALID_REFERENCE",
    "MISSING_EXCHANGE_RATE", "TypeError" }

CommitStarted == pc \in {"execute", "reload"} \/ committed \/ ~StoreUntouched

C4_CommitOnlyAfterAllChecks ==
  /\ CommitStarted =>
       /\ Loaded
       /\ transactionToEdit[1]["posted"] = 0
       /\ ~allRowsRemoved(body.added, body.removed, transactionToEdit)
       /\ ~singleRow(body.added, body.removed, transactionToEdit)
       /\ LookupFiscalYearByDate(transDate) # {}
       /\ ~InLockedYear(transDate)
       /\ \A i \in 1..Len(body.added) : Truthy(body.added[i], "account_number")
       /\ AllResolvable(body.added)
       /\ AllResolvable(BodyChangedRows)
  /\ (pc = "done" /\ response.code \in LookupErrors) => (StoreUntouched /\ ~committed)

C4_ChangedLookupFailedAfterQueueing ==
  /\ pc = "done"
  /\ response.code = "EDIT_INVALID_ENTITY"
  /\ \E i \in 1..Len(queue) : queue[i].op = "DELETE"
  /\ \E i \in 1..Len(queue) : queue[i].op = "INSERT"

(***************************************************************************)
(* C5.  Lookup-to-row correspondence: in whatever order the lookups        *)
(* settle, a column written by a lookup holds the value resolved for the   *)
(* code of that same row, and the chain goes on only when every scheduled  *)
(* column of every row has been written.                                   *)
(***************************************************************************)
\* the columns lookups have written so far are those of the row's own codes
WrittenForOwnRow(original, current) ==
  \A i \in 1..Len(current) : \A col \in LookupColumns :
    (Has(current[i], col) /\ ~Has(original[i], col))
      => /\ Truthy(original[i], CodeColumn(col))
         /\ current[i][col] = Resolved(original[i], col)

\* every scheduled column has been written
AllWritten(original, current) ==
  \A i \in 1..Len(current) : \A col \in LookupColumns :
    Truthy(original[i], CodeColumn(col)) => Has(current[i], col)

CurrentChangedRows == [k \in 1..Len(rowsChanged) |-> rowsChanged[k].row]

C5_ResultsReachTheirRows ==
  /\ WrittenForOwnRow(body.added, rowsAdded)
  /\ WrittenForOwnRow(BodyChangedRows, CurrentChangedRows)
  /\ pc \in {"changed", "execute", "reload"} => AllWritten(body.added, rowsAdded)
  /\ pc \in {"execute", "reload"} => AllWritten(BodyChangedRows, CurrentChangedRows)

C5_TwoRowsResolvedApart ==
  /\ pc = "execute"
  /\ Len(rowsAdded) = 2
  /\ rowsAdded[1]["account_id"] # rowsAdded[2]["account_id"]
  /\ Has(rowsAdded[1], "debit") /\ Has(rowsAdded[2], "credit")
  /\ Len(rowsChanged) = 2
  /\ Has(rowsChanged[1].row, "entity_uuid") /\ Has(rowsChanged[2].row, "reference_uuid")


(***************************************************************************)
(* C6.  All-or-nothing commit: in every state the posting journal and the  *)
(* history are either those the request found, or those with every removed *)
(* row deleted, every transformed added row inserted, every transformed    *)
(* changed row updated by its identity and every other row as it was; a    *)
(* failed commit leaves the rows the request found.                        *)
(***************************************************************************)
RemovedUuids == {body.removed[i]["uuid"] : i \in 1..Len(body.removed)}
AddedUuids == {rowsAdded[i]["uuid"] : i \in 1..Len(rowsAdded)}
ChangedUids == {rowsChanged[k].uid : k \in 1..Len(rowsChanged)}

FullyApplied ==
  /\ \A u \in RemovedUuids \ AddedUuids : u \notin DOMAIN journal
  /\ \A i \in 1..Len(rowsAdded) :
       LET u == rowsAdded[i]["uuid"]
       IN  u \in DOMAIN journal /\ (u \notin ChangedUids => journal[u] = rowsAdded[i])
  /\ \A k \in 1..Len(rowsChanged) :
       LET u == rowsChanged[k].uid
       IN  (u \in DOMAIN pre /\ u \notin RemovedUuids)
             => (u \in DOMAIN journal /\ journal[u] = Merge(rowsChanged[k].row, pre[u]))
  /\ \A u \in DOMAIN pre \ (RemovedUuids \cup ChangedUids) :
       u \in DOMAIN journal /\ journal[u] = pre[u]
  /\ DOMAIN journal \subseteq DOMAIN pre \cup AddedUuids
  /\ Len(history) = Len(preHistory) + 1

C6_CommitAllOrNothing ==
  IF committed THEN FullyApplied ELSE StoreUntouched

C6_EditOfEveryKindCommitted ==
  /\ committed
  /\ Len(body.removed) > 0 /\ Len(body.added) > 0 /\ Len(body.changed) = 2
  /\ RemovedUuids \cap DOMAIN pre # {}
  /\ journal # pre

C6_FailedCommitSeen ==
  /\ FailedWith(500, "STORE_FAILURE")
  /\ ~committed
  /\ Len(queue) > 1

(***************************************************************************)
(* C7.  History records: over any sequence of edit requests the history    *)
(* holds exactly one record per committed edit, in order, stamped with the *)
(* transaction's record_uuid and the acting user; failed edits add none    *)
(* and no record is changed or deleted.                                    *)
(***************************************************************************)
C7_OneHistoryRecordPerCommit == history = commits

C7_TwoCommitsAndAFailure ==
  /\ Len(history) = 2
  /\ history[1]["user_id"] # history[2]["user_id"]
  /\ editsLeft = 0
  /\ pc = "done"
  /\ response.status = 400

(***************************************************************************)
(* C8.  Two outcomes only: every answered edit request is either a success *)
(* with the edit applied, or an error with the transaction unchanged.      *)
(***************************************************************************)
C8_ErrorLeavesStoreUnchanged ==
  pc = "done" =>
    \/ response.status = 200 /\ committed
    \/ response.status # 200 /\ StoreUntouched

(***************************************************************************)
(* C9.  Date precedence: the fiscal year and period resolved for the edit  *)
(* are those of the date of the (last) changed row that carries a          *)
(* trans_date, and those of a date of the existing transaction when no     *)
(* changed row carries one.                                                *)
(***************************************************************************)
Contains(period, date) == period.start_date <= date /\ date <= period.end_date

C9_ChangedDateDecidesFiscalYear ==
  fiscalYear # NoFiscalYear =>
    IF Len(ChangedDates) > 0
      THEN Contains(fiscalYear, ChangedDates[Len(ChangedDates)])
      ELSE \E i \in 1..Len(transactionToEdit) :
             Contains(fiscalYear, DateOf(transactionToEdit[i]))

C9_ChangedDateInAnotherPeriod ==
  /\ committed
  /\ Len(ChangedDates) > 0
  /\ \A i \in 1..Len(transactionToEdit) : ~Contains(fiscalYear, DateOf(transactionToEdit[i]))

C9_NoChangedDate ==
  /\ committed
  /\ Len(body.changed) > 0
  /\ Len(ChangedDates) = 0

(***************************************************************************)
(* C10.  Exchange-rate failure surfaces distinctly: an edit whose only     *)
(* failing lookups are exchange-rate lookups without a usable amount (no   *)
(* row, a NULL amount or a zero amount) ends with MISSING_EXCHANGE_RATE    *)
(* and commits nothing.                                                    *)
(***************************************************************************)
AmountColumns == {"debit", "credit"}

\* a row of the request schedules an exchange-rate lookup that yields no usable amount
ExchangeUnusable(rows) ==
  \E i \in 1..Len(rows) : \E col \in AmountColumns :
    Truthy(rows[i], CodeColumn(col)) /\ ~Resolvable(rows[i], col)

\* every other lookup of the rows can be answered
OthersResolvable(rows) ==
  \A i \in 1..Len(rows) : \A col \in LookupColumns \ AmountColumns :
    Truthy(rows[i], CodeColumn(col)) => Resolvable(rows[i], col)

\* the edit has reached the lookups of a batch in which only exchange-rate lookups
\* fail, and has been answered
OnlyExchangeRateFails ==
  /\ pc = "done"
  /\ fiscalYear # NoFiscalYear /\ fiscalYear.locked = 0
  /\ \A i \in 1..Len(body.added) : Truthy(body.added[i], "account_number")
  /\ OthersResolvable(body.added) /\ OthersResolvable(BodyChangedRows)
  /\ ExchangeUnusable(body.added) \/ ExchangeUnusable(BodyChangedRows)

C10_MissingRateReported ==
  OnlyExchangeRateFails => (FailedWith(400, "MISSING_EXCHANGE_RATE") /\ StoreUntouched)

(***************************************************************************)
(* C11.  Opening balance boundary: for an account whose only total in the  *)
(* fiscal year of the date is the period-0 total (debit 100, credit 0), in *)
(* a fiscal year without any other period, the call with includeMaxDate    *)
(* true settles with debit 100.0000, credit 0.0000 and balance 100.0000.   *)
(***************************************************************************)
\* the call is over: its promise has been resolved or rejected
Settled == step \in {"resolved", "rejected"}

\* the fiscal year that contains the date of the call has period 0 only
OnlyPeriodZero ==
  \E f \in FiscalYearTable :
    /\ f.start_date <= call.date /\ call.date <= f.end_date
    /\ \A p \in PeriodTable : p.fiscal_year_id = f.id => p.number = 0
    /\ \E t \in periodTotal :
         /\ t.account_id = call.accountId /\ t.debit = 100 /\ t.credit = 0
         /\ \E p \in PeriodTable : p.id = t.period_id /\ p.fiscal_year_id = f.id

C11_PeriodZeroOpeningReturned ==
  (Settled /\ call.includeMaxDate /\ OnlyPeriodZero)
    => opening = [error |-> "", balance |-> "100.0000", credit |-> "0.0000",
                  debit |-> "100.0000"]

(***************************************************************************)
(* C12.  After a successful edit of transaction T the posting journal      *)
(* holds at least two rows whose record_uuid is T, whatever the body       *)
(* (rows removed twice, removed rows of another transaction, added rows    *)
(* that carry another record_uuid).                                        *)
(***************************************************************************)
\* the uuids of the journal rows of a transaction
JournalRowsOf(recordUuid) ==
  {u \in DOMAIN journal : journal[u]["record_uuid"] = recordUuid}

Succeeded == pc = "done" /\ response.status = 200

C12_TwoRowsAfterEdit ==
  Succeeded => Cardinality(JournalRowsOf(body.record_uuid)) >= 2

(***************************************************************************)
(* C13.  After a successful edit no row the edit inserted or updated       *)
(* carries a trans_date inside a locked fiscal year, also when the date    *)
(* comes with an added row only or when changed rows carry different       *)
(* dates.                                                                  *)
(***************************************************************************)
\* the journal rows the edit inserted or updated
WrittenUuids == (AddedUuids \cup ChangedUids) \cap DOMAIN journal

C13_NoWrittenDateInLockedYear ==
  Succeeded => \A u \in WrittenUuids : ~InLockedYear(DateOf(journal[u]))

\* the same for the edits in which only added rows carry a date
C13_AddedDateInLockedYear ==
  (Succeeded /\ Len(ChangedDates) = 0)
    => \A u \in WrittenUuids : ~InLockedYear(DateOf(journal[u]))

(***************************************************************************)
(* C14.  The effective transaction date of an edit is the latest           *)
(* trans_date among the changed rows; when no changed row has one, the     *)
(* trans_date among the added rows; when neither has one, the date of the  *)
(* existing transaction.                                                   *)
(***************************************************************************)
\* the dates the added rows of the request carry, in their order
AddedDates ==
  LET dated == SelectSeq(body.added, LAMBDA r : Truthy(r, "trans_date"))
  IN  [i \in 1..Len(dated) |-> dated[i]["trans_date"]]

\* the dates of a sequence as a set, and the latest of a non-empty set of dates
DatesIn(dates) == {dates[i] : i \in 1..Len(dates)}

Latest(S) == CHOOSE d \in S : \A e \in S : e <= d

\* the date has been computed: the edit has passed the load and its checks
DateComputed == transDate # 0

C14_EffectiveDate ==
  DateComputed =>
    IF Len(ChangedDates) > 0 THEN transDate = Latest(DatesIn(ChangedDates))
    ELSE IF Len(AddedDates) > 0 THEN transDate \in DatesIn(AddedDates)
    ELSE \E i \in 1..Len(transactionToEdit) : transDate = DateOf(transactionToEdit[i])

\* the first part alone: the latest date among the changed rows
C14_LatestChangedDate ==
  (DateComputed /\ Len(ChangedDates) > 0) => transDate = Latest(DatesIn(ChangedDates))

\* the second part alone: the date among the added rows
C14_AddedDate ==
  (DateComputed /\ Len(ChangedDates) = 0 /\ Len(AddedDates) > 0)
    => transDate \in DatesIn(AddedDates)

(***************************************************************************)
(* C15.  Every added or changed row that supplies its own trans_date is    *)
(* stored with the fiscal_year_id and period_id of the fiscal year and     *)
(* period that contain that date; a row that supplies none keeps its       *)
(* fiscal_year_id and period_id as they were.                              *)
(***************************************************************************)
\* the row carries the ids of the period and fiscal year that contain the date
StampedFor(row, date) ==
  \E p \in Calendar :
    /\ Contains(p, date)
    /\ Has(row, "period_id") /\ row["period_id"] = p.id
    /\ Has(row, "fiscal_year_id") /\ row["fiscal_year_id"] = p.fiscal_year_id

\* the two columns of the stored row are those of the row before the transform
FiscalColumnsKept(stored, before) ==
  \A k \in {"fiscal_year_id", "period_id"} :
    /\ Has(stored, k) <=> Has(before, k)
    /\ Has(stored, k) => stored[k] = before[k]

C15_StampedForOwnDate ==
  committed =>
    /\ \A i \in 1..Len(body.added) :
         LET u == body.added[i]["uuid"]
         IN  u \in DOMAIN journal =>
               IF Truthy(body.added[i], "trans_date")
                 THEN StampedFor(journal[u], body.added[i]["trans_date"])
                 ELSE FiscalColumnsKept(journal[u], body.added[i])
    /\ \A k \in 1..Len(body.changed) :
         LET u == body.changed[k].uid
         IN  (u \in DOMAIN journal /\ u \in DOMAIN pre) =>
               IF Truthy(body.changed[k].row, "trans_date")
                 THEN StampedFor(journal[u], body.changed[k].row["trans_date"])
                 ELSE FiscalColumnsKept(journal[u], pre[u])

(***************************************************************************)
(* C16.  For every added or changed row in which debit_equiv is present,   *)
(* whatever its value (0 included), the stored row's debit is the amount   *)
(* converted on the row's own date if it has one, else on the transaction  *)
(* date, so that debit and debit_equiv of a stored row agree; the same for *)
(* credit_equiv and credit.                                                *)
(***************************************************************************)
\* the amount a present debit_equiv / credit_equiv of a request row converts to
ConvertedFor(row, column) ==
  IF row[CodeColumn(column)] = 0 THEN 0 ELSE Resolved(row, column)

\* the stored row agrees with the equivalents the request row carries
AmountsAgree(stored, requested) ==
  \A col \in AmountColumns :
    Has(requested, CodeColumn(col))
      => (Has(stored, col) /\ stored[col] = ConvertedFor(requested, col))

C16_AmountsFollowEquivalents ==
  committed =>
    /\ \A i \in 1..Len(body.added) :
         LET u == body.added[i]["uuid"]
         IN  u \in DOMAIN journal => AmountsAgree(journal[u], body.added[i])
    /\ \A k \in 1..Len(body.changed) :
         LET u == body.changed[k].uid
         IN  (u \in DOMAIN journal /\ u \in DOMAIN pre)
               => AmountsAgree(journal[u], body.changed[k].row)

\* the same for the rows whose equivalent is not zero
C16_NonZeroAmountsFollow ==
  committed =>
    /\ \A i \in 1..Len(body.added) :
         LET u == body.added[i]["uuid"]
         IN  u \in DOMAIN journal =>
               \A col \in AmountColumns :
                 Truthy(body.added[i], CodeColumn(col))
                   => journal[u][col] = Resolved(body.added[i], col)
    /\ \A k \in 1..Len(body.changed) :
         LET u == body.changed[k].uid
         IN  (u \in DOMAIN journal /\ u \in DOMAIN pre) =>
               \A col \in AmountColumns :
                 Truthy(body.changed[k].row, CodeColumn(col))
                   => journal[u][col] = Resolved(body.changed[k].row, col)

(***************************************************************************)
(* C17.  When an added row lacks an account code, the transform of the     *)
(* added rows fails with EDIT_INVALID_ACCOUNT and no lookup of the batch   *)
(* has been issued, not even those of the rows before the offending one;   *)
(* a changed row without an account code is accepted and schedules no      *)
(* account lookup.                                                         *)
(***************************************************************************)
\* the edit has reached the transform of the added rows
TransformReached == fiscalYear # NoFiscalYear /\ ~IsLocked(fiscalYear)

AddedLacksAccount ==
  \E i \in 1..Len(body.added) : ~Truthy(body.added[i], "account_number")

\* the account lookups among the scheduled lookups of the batch in progress
AccountLookups ==
  {i \in 1..Len(databaseRequests) : databaseRequests[i] = "ACCOUNT_NUMBER_QUERY"}

ChangedWithAccount ==
  {k \in 1..Len(body.changed) : Truthy(body.changed[k].row, "account_number")}

C17_MissingAccountFailsBeforeLookups ==
  /\ (TransformReached /\ AddedLacksAccount)
       => /\ FailedWith(400, "EDIT_INVALID_ACCOUNT")
          /\ issued = 0
          /\ StoreUntouched
  /\ pc = "changed" => Cardinality(AccountLookups) = Cardinality(ChangedWithAccount)
  /\ FailedWith(400, "EDIT_INVALID_ACCOUNT")
       => \/ AddedLacksAccount
          \/ ~OthersResolvable(body.added)
          \/ ~OthersResolvable(BodyChangedRows)

\* a valid row with two lookups stands before the row without an account code
C17_OffendingRowAfterValidRow ==
  /\ FailedWith(400, "EDIT_INVALID_ACCOUNT")
  /\ Len(body.added) = 2
  /\ Truthy(body.added[1], "account_number") /\ Truthy(body.added[1], "debit_equiv")
  /\ ~Truthy(body.added[2], "account_number")
  /\ issued = 0

\* a changed row without an account code has been accepted and committed
C17_ChangedWithoutAccountAccepted ==
  /\ Succeeded
  /\ Len(body.changed) > 0
  /\ ChangedWithAccount = {}

(***************************************************************************)
(* C18.  A row whose account number, entity code or reference code         *)
(* resolves to no record fails the whole batch, with EDIT_INVALID_ACCOUNT, *)
(* EDIT_INVALID_ENTITY or EDIT_INVALID_REFERENCE respectively; an entity   *)
(* or reference lookup is issued only for a row that carries the code;     *)
(* when several lookups fail the batch fails with one of these failures,   *)
(* the one that settles first.                                             *)
(***************************************************************************)
ReferenceColumns == {"account_id", "entity_uuid", "reference_uuid"}

\* the error a code that resolves to no record has to give
ErrorFor(column) ==
  CASE column = "account_id"     -> "EDIT_INVALID_ACCOUNT"
    [] column = "entity_uuid"    -> "EDIT_INVALID_ENTITY"
    [] column = "reference_uuid" -> "EDIT_INVALID_REFERENCE"

\* the kinds of code that resolve to no record on some row
Unresolved(rows) ==
  {col \in ReferenceColumns :
     \E i \in 1..Len(rows) : Truthy(rows[i], CodeColumn(col)) /\ ~Resolvable(rows[i], col)}

\* the batch whose lookups fail: the added rows, or else the changed rows
FailingBatch == IF AllResolvable(body.added) THEN BodyChangedRows ELSE body.added

\* the rows of the request in the batch whose lookups are in progress
BatchInProgress == IF pc = "added" THEN body.added ELSE BodyChangedRows

LookupsOf(request) == {i \in 1..Len(databaseRequests) : databaseRequests[i] = request}

RowsWith(rows, code) == {i \in 1..Len(rows) : Truthy(rows[i], code)}

C18_UnresolvedCodeFailsBatch ==
  /\ (Unresolved(body.added) \cup Unresolved(BodyChangedRows) # {})
       => (~CommitStarted /\ ~Succeeded)
  /\ Unresolved(body.added) # {} => pc # "changed"
  /\ (pc = "done" /\ ~AddedLacksAccount
        /\ response.code \in {ErrorFor(col) : col \in ReferenceColumns})
       => \E col \in Unresolved(FailingBatch) : response.code = ErrorFor(col)
  /\ (pc = "done" /\ TransformReached /\ ~AddedLacksAccount
        /\ Unresolved(FailingBatch) # {} /\ ~ExchangeUnusable(FailingBatch))
       => \E col \in Unresolved(FailingBatch) : FailedWith(400, ErrorFor(col))
  /\ pc \in {"added", "changed"} =>
       /\ Cardinality(LookupsOf("ENTITY_QUERY"))
            = Cardinality(RowsWith(BatchInProgress, "hrEntity"))
       /\ Cardinality(LookupsOf("REFERENCE_QUERY"))
            = Cardinality(RowsWith(BatchInProgress, "hrReference"))

\* two lookups of a row fail and the one scheduled last has settled first, after
\* the account lookup of the row has been answered
C18_LastScheduledFailureFirst ==
  /\ FailedWith(400, "EDIT_INVALID_REFERENCE")
  /\ Unresolved(FailingBatch) = {"entity_uuid", "reference_uuid"}
  /\ \E k \in 1..Len(rowsChanged) : Has(rowsChanged[k].row, "account_id")
  /\ StoreUntouched

(***************************************************************************)
(* C19.  The prior-period sum of getOpeningBalanceForDate covers, within   *)
(* the fiscal year that contains the date, exactly period 0 and the        *)
(* periods that end strictly before the date; the period that contains the *)
(* date, also when the date is its last day, is not part of it, so that no *)
(* period contributes through its total and through its ledger lines.      *)
(***************************************************************************)
\* the fiscal year and the dated period that contain the date of the call
YearOfCall ==
  CHOOSE f \in FiscalYearTable : f.start_date <= call.date /\ call.date <= f.end_date

PeriodsOfCall ==
  {p \in PeriodTable :
     p.start_date # NULL /\ p.start_date <= call.date /\ call.date <= p.end_date}

\* period 0 of that fiscal year and its periods that end before the date
PriorPeriods ==
  {p \in PeriodTable :
     /\ p.fiscal_year_id = YearOfCall.id
     /\ p.number = 0 \/ (p.end_date # NULL /\ p.end_date < call.date)}

\* the totals of the account in a set of periods
TotalsIn(periods) ==
  {t \in periodTotal :
     t.account_id = call.accountId /\ t.period_id \in {p.id : p \in periods}}

\* the prior-period sum has been computed
PriorSummed ==
  step \in {"getPeriodForDate", "getComputedAccountBalanceUntilDate", "resolved"}

C19_PriorPeriodsExactly ==
  PriorSummed =>
    /\ previousPeriodClosing.debit = SumOf([t \in TotalsIn(PriorPeriods) |-> t.debit])
    /\ previousPeriodClosing.credit = SumOf([t \in TotalsIn(PriorPeriods) |-> t.credit])
    /\ PriorPeriods \cap PeriodsOfCall = {}
    /\ step = "resolved" => periodId \notin {p.id : p \in PriorPeriods}

\* the date is the last day of a period that has a total, after a period with a
\* total, and ledger lines of the period are summed
C19_LastDayOfPeriod ==
  /\ step = "resolved"
  /\ \E p \in PeriodsOfCall : p.end_date = call.date /\ TotalsIn({p}) # {}
  /\ Cardinality(TotalsIn(PriorPeriods)) = 2
  /\ runningPeriod.debit > 0

(***************************************************************************)
(* C20.  The current-period sum covers the general-ledger lines of the     *)
(* account in the period that contains the date, dated up to the date when *)
(* includeMaxDate is true and before the date when it is false: the two    *)
(* differ by the lines dated on the date itself; lines of the posting      *)
(* journal never contribute.                                               *)
(***************************************************************************)
\* the ledger lines of the account in the period of the date, before the date and
\* on the date
LinesOfPeriod ==
  {u \in DOMAIN ledger :
     /\ ledger[u]["account_id"] = call.accountId
     /\ ledger[u]["period_id"] \in {p.id : p \in PeriodsOfCall}}

LinesBefore == {u \in LinesOfPeriod : ledger[u]["trans_date"] < call.date}

LinesOn == {u \in LinesOfPeriod : ledger[u]["trans_date"] = call.date}

\* journal lines of the account in the period of the date, dated up to the date
JournalLinesOfPeriod ==
  {u \in DOMAIN journal :
     /\ journal[u]["account_id"] = call.accountId
     /\ journal[u]["period_id"] \in {p.id : p \in PeriodsOfCall}
     /\ journal[u]["trans_date"] <= call.date}

LedgerSum(lines, column) == SumOf([u \in lines |-> ledger[u][column]])

FourDecimals(n) == ToString(n) \o ".0000"

\* the ledger lines the current-period sum of the call covers
LinesCovered == IF call.includeMaxDate THEN LinesBefore \cup LinesOn ELSE LinesBefore

\* the date of the call lies in a fiscal year and in a dated period
DateInCalendar ==
  /\ \E f \in FiscalYearTable : f.start_date <= call.date /\ call.date <= f.end_date
  /\ PeriodsOfCall # {}

C21_ResultIsSumOfParts ==
  /\ step = "resolved" =>
       /\ opening.error = ""
       /\ opening.balance = FourDecimals(previousPeriodClosing.balance + runningPeriod.balance)
       /\ opening.debit = FourDecimals(previousPeriodClosing.debit + runningPeriod.debit)
       /\ opening.credit = FourDecimals(previousPeriodClosing.credit + runningPeriod.credit)
       /\ TotalsIn(PriorPeriods) = {} => previousPeriodClosing = NoSums
       /\ LinesCovered = {} => runningPeriod = NoSums
  /\ (Settled /\ DateInCalendar) => step = "resolved"

\* an account without a total in the fiscal year of the date, with ledger lines
C21_NoTotalButLines ==
  /\ step = "resolved"
  /\ TotalsIn({p \in PeriodTable : p.fiscal_year_id = YearOfCall.id}) = {}
  /\ runningPeriod.debit > 0
  /\ opening.debit = FourDecimals(runningPeriod.debit)

\* an account with totals and without a ledger line
C21_TotalsButNoLine ==
  /\ step = "resolved"
  /\ previousPeriodClosing.debit > 0
  /\ LinesOfPeriod = {}
  /\ opening.credit = "0.0000"

\* an account without totals and without lines
C21_NothingAtAll ==
  /\ step = "resolved"
  /\ opening = [error |-> "", balance |-> "0.0000", credit |-> "0.0000", debit |-> "0.0000"]

(***************************************************************************)
(* C26.  The three figures of every result are consistent: the balance is  *)
(* the debit minus the credit, for the prior-period part and for the       *)
(* current-period part.                                                    *)
(***************************************************************************)
C26_BalanceIsDebitMinusCredit ==
  step = "resolved" =>
    /\ previousPeriodClosing.balance = previousPeriodClosing.debit - previousPeriodClosing.credit
    /\ runningPeriod.balance = runningPeriod.debit - runningPeriod.credit
    /\ opening.balance
         = FourDecimals((previousPeriodClosing.debit + runningPeriod.debit)
                          - (previousPeriodClosing.credit + runningPeriod.credit))

\* the prior-period part alone
C26_PriorPartConsistent ==
  PriorSummed =>
    previousPeriodClosing.balance = previousPeriodClosing.debit - previousPeriodClosing.credit

(***************************************************************************)
(* C24.  An edit request for transaction T deletes, updates and inserts    *)
(* only journal rows whose record_uuid is T: the rows of every other       *)
(* transaction and every row of the general ledger are after the edit what *)
(* they were before it, whatever the body.                                 *)
(***************************************************************************)
\* the rows of a journal that belong to other transactions than the one edited
OtherRows(jrn) ==
  {u \in DOMAIN jrn : jrn[u]["record_uuid"] # body.record_uuid}

C24_OnlyOwnRowsTouched ==
  /\ OtherRows(journal) = OtherRows(pre)
  /\ \A u \in OtherRows(pre) : journal[u] = pre[u]
  /\ ledger = InitialLedger

\* the ledger part alone
C24_LedgerUntouched == ledger = InitialLedger

(***************************************************************************)
(* C22.  Two edit requests for the same unposted transaction that both     *)
(* load and check before either commits: the outcome is that of a serial   *)
(* order of the two, or one of them is rejected; the transaction never     *)
(* ends with fewer than two rows because both passed the row-count check   *)
(* against the same rows.                                                  *)
(***************************************************************************)
BothCommitted ==
  /\ pc = "done" /\ committed
  /\ parked.pc = "done" /\ parked.committed

\* both requests loaded the transaction as it was before either commit
SameRowsLoaded ==
  /\ Len(transactionToEdit) = 3
  /\ Range(transactionToEdit) = Range(parked.transactionToEdit)

C22_ConcurrentEditsKeepTwoRows ==
  (BothCommitted /\ body.record_uuid = parked.body.record_uuid)
    => Cardinality(JournalRowsOf(body.record_uuid)) >= 2

\* when the second request loads after the commit of the first, two rows remain
C22_SerialEditsKeepTwoRows ==
  (BothCommitted /\ ~SameRowsLoaded)
    => Cardinality(JournalRowsOf(body.record_uuid)) >= 2

\* both requests loaded the three rows, each removed another one, both committed
C22_BothPassedOnTheSameRows ==
  /\ BothCommitted
  /\ SameRowsLoaded
  /\ Len(body.removed) = 1 /\ Len(parked.body.removed) = 1
  /\ body.removed # parked.body.removed

(***************************************************************************)
(* C23.  A transaction posted after an edit passed its eligibility check   *)
(* and before the edit commits: after the commit the rows of the           *)
(* transaction are all in one location, the edit has inserted no row into  *)
(* the posting journal for a transaction of the general ledger.            *)
(***************************************************************************)
LedgerRowsOf(recordUuid) ==
  {u \in DOMAIN ledger : ledger[u]["record_uuid"] = recordUuid}

\* the check of the running request found the transaction unposted
PassedEligibility ==
  /\ Len(transactionToEdit) > 0
  /\ ~IsPosted(transactionToEdit)

C23_RowsInOneLocation ==
  (committed /\ PassedEligibility)
    => ~(/\ JournalRowsOf(body.record_uuid) # {}
         /\ LedgerRowsOf(body.record_uuid) # {})

\* the transaction was posted between the check and the commit of the edit
C23_PostedBeforeCommit ==
  /\ committed /\ PassedEligibility
  /\ LedgerRowsOf(body.record_uuid) # {}

(***************************************************************************)
(* C25.  Whatever the interleaving of reverse requests for one record,     *)
(* ReverseTransaction is called at most once for the record: a request     *)
(* that arrives after or together with a reversal of the record fails with *)
(* MULTIPLE_CANCELLING and gets no new voucher uuid.                       *)
(***************************************************************************)
CallsFor(recordUuid) ==
  {i \in DOMAIN reversals : reversals[i].recordUuid = recordUuid /\ reversals[i].called}

C25_ReversedAtMostOnce ==
  \A recordUuid \in {"T1", "T3"} : Cardinality(CallsFor(recordUuid)) <= 1

\* a request whose query is answered after the voucher was written is refused
C25_LaterRequestRefused ==
  \A i \in DOMAIN reversals :
    (reversals[i].response.status = 400) =>
      /\ reversals[i].response.code = "MULTIPLE_CANCELLING"
      /\ ~reversals[i].called
      /\ reversals[i].uuid = 0
      /\ CancellingVouchers(voucher, reversals[i].recordUuid) # {}

\* two vouchers cancel the same record
C25_TwoCancellingVouchers ==
  \E recordUuid \in {"T1", "T3"} :
    Cardinality(CancellingVouchers(voucher, recordUuid)) > 1

(***************************************************************************)
(* C27.  After any sequence of toggleUnitChildren calls from a tree in     *)
(* which it holds, every checked unit has all its ancestors checked        *)
(* (checking a unit of depth two or more checks its parent, its            *)
(* grandparent and so on), and every descendant of the toggled unit has    *)
(* the checked state of the toggled unit.                                  *)
(***************************************************************************)
RECURSIVE Ancestors(_)
Ancestors(id) ==
  IF UnitParent[id] = 0 THEN {} ELSE {UnitParent[id]} \cup Ancestors(UnitParent[id])

Descendants(id) == {d \in UnitIds : id \in Ancestors(d)}

C27_AncestorsChecked ==
  units # << >> =>
    \A id \in UnitIds : units[id].checked => \A a \in Ancestors(id) : units[a].checked

\* the descendants of the toggled unit take its state, whatever unit is toggled
\* in the tree as it is now
C27_DescendantsFollow ==
  units # << >> =>
    \A id \in UnitIds, checked \in BOOLEAN :
      LET st == toggleUnitChildren(
                  [units |-> [units EXCEPT ![id].checked = checked], super |-> super], id)
      IN  /\ st.units[id].checked = checked
          /\ \A d \in Descendants(id) : st.units[d].checked = checked

\* the parent of a checked unit is checked, the grandparent is not
C27_GrandparentLeftUnchecked ==
  /\ units # << >>
  /\ \E id \in UnitIds :
       /\ UnitParent[id] # 0 /\ UnitParent[UnitParent[id]] # 0
       /\ units[id].checked
       /\ units[UnitParent[id]].checked
       /\ ~units[UnitParent[UnitParent[id]]].checked

====
